---- MODULE Spec2Model ----
(***************************************************************************)
(* Model of the Issue Document Model of AutoPaper: the section splitter,   *)
(* the article block parser, the news brief parser, the markdown to HTML   *)
(* formatter and the enrichment loop of the generate command.              *)
(*                                                                         *)
(* A Python str is modelled as a sequence of one-character strings, so     *)
(* that startswith, find, split, strip and slicing are computed as Python  *)
(* computes them.  A character outside ASCII is written by the name of its *)
(* code point ("U3002" is the ideographic full stop).                      *)
(***************************************************************************)
EXTENDS Integers, Sequences, FiniteSets, TLC

VARIABLES
    copy,             \* which copy of the splitter runs: "export", "email", "pdf"
    markdown,         \* the text given to _parse_issue_markdown
    pc,               \* "idle", "loop", "done" or "raised"
    n,                \* number of lines the for loop of the splitter has consumed
    current_section,  \* local of _parse_issue_markdown (None or a key)
    current_content,  \* local of _parse_issue_markdown (list of lines)
    sections,         \* local of _parse_issue_markdown (dict key -> value)
    fn,               \* name of the function applied by a function-call specification
    arg,              \* its argument
    ret,              \* its result ([done |-> FALSE] before the call)
    frames,           \* the locals of the calls in progress, one frame per call
    db                \* the rows of the articles table of the database

vars == <<copy, markdown, pc, n, current_section, current_content, sections, fn, arg, ret,
          frames, db>>

splitVars == <<copy, markdown, pc, n, current_section, current_content, sections>>
callVars == <<fn, arg, ret>>

-----------------------------------------------------------------------------
(* Python values *)

\* None and Some(x): an optional value; Some(<<>>) is the empty string, not None.
None == <<>>
Some(x) == <<x>>

\* The characters str.strip() removes with no argument.
Whitespace == {" ", "\t", "\n", "\r"}

NL == <<"\n">>

Min(S) == CHOOSE x \in S : \A y \in S : x <= y
Max(S) == CHOOSE x \in S : \A y \in S : x >= y

\* The k-th smallest element of a set of numbers.
Nth(S, k) == CHOOSE x \in S : Cardinality({y \in S : y <= x}) = k

\* s.startswith(p)
StartsWith(s, p) == Len(s) >= Len(p) /\ SubSeq(s, 1, Len(p)) = p

\* s.find(p, start): Python index (from 0) of the first occurrence at or after
\* start, or -1.
PyFind(s, p, start) ==
    LET hits == {i \in start..(Len(s) - Len(p)) : SubSeq(s, i + 1, i + Len(p)) = p}
    IN  IF hits = {} THEN -1 ELSE Min(hits)

\* p in s
Contains(s, p) == PyFind(s, p, 0) >= 0

\* s[a:b] for a >= 0; a negative b counts from the end, as in Python.
PySlice(s, a, b) ==
    LET e0 == IF b < 0 THEN b + Len(s) ELSE b
        e  == IF e0 < 0 THEN 0 ELSE IF e0 > Len(s) THEN Len(s) ELSE e0
    IN  IF a >= e THEN <<>> ELSE SubSeq(s, a + 1, e)

\* s[a:]
PySliceFrom(s, a) == IF a >= Len(s) THEN <<>> ELSE SubSeq(s, a + 1, Len(s))

\* s.strip(chars): removes the characters of the set from both ends.
StripChars(s, chars) ==
    LET keep == {i \in 1..Len(s) : s[i] \notin chars}
    IN  IF keep = {} THEN <<>> ELSE SubSeq(s, Min(keep), Max(keep))

\* s.strip()
Strip(s) == StripChars(s, Whitespace)

\* s.split(c) for a one-character separator c: always at least one piece.
SplitChar(s, c) ==
    LET pos == {i \in 1..Len(s) : s[i] = c}
        k == Cardinality(pos)
        cut(j) ==
            IF j = 0 THEN 0
            ELSE IF j = k + 1 THEN Len(s) + 1
            ELSE CHOOSE x \in pos : Cardinality({y \in pos : y <= x}) = j
    IN  [j \in 1..(k + 1) |-> SubSeq(s, cut(j - 1) + 1, cut(j) - 1)]

\* s.split(c, 1): one piece when c does not occur, else the text before the
\* first c and the text after it.
SplitOnce(s, c) ==
    LET i == PyFind(s, <<c>>, 0)
    IN  IF i < 0 THEN <<s>> ELSE <<PySlice(s, 0, i), PySliceFrom(s, i + 1)>>

\* sep.join(parts)
RECURSIVE Join(_, _)
Join(parts, sep) ==
    IF Len(parts) = 0 THEN <<>>
    ELSE IF Len(parts) = 1 THEN parts[1]
    ELSE parts[1] \o sep \o Join(Tail(parts), sep)

\* s.replace(p, r) for a non-empty p: left to right, occurrences do not overlap.
RECURSIVE Replace(_, _, _)
Replace(s, p, r) ==
    LET i == PyFind(s, p, 0)
    IN  IF i < 0 THEN s
        ELSE PySlice(s, 0, i) \o r \o Replace(PySliceFrom(s, i + Len(p)), p, r)

\* str.lower(): the ASCII capitals; every other character of the model is
\* its own lower case.
LowerChar(c) ==
    CASE c = "A" -> "a" [] c = "B" -> "b" [] c = "C" -> "c" [] c = "D" -> "d" [] c = "E" -> "e" [] c = "F" -> "f"
      [] c = "G" -> "g" [] c = "H" -> "h" [] c = "I" -> "i" [] c = "J" -> "j" [] c = "K" -> "k" [] c = "L" -> "l"
      [] c = "M" -> "m" [] c = "N" -> "n" [] c = "O" -> "o" [] c = "P" -> "p" [] c = "Q" -> "q" [] c = "R" -> "r"
      [] c = "S" -> "s" [] c = "T" -> "t" [] c = "U" -> "u" [] c = "V" -> "v" [] c = "W" -> "w" [] c = "X" -> "x"
      [] c = "Y" -> "y" [] c = "Z" -> "z"
      [] OTHER -> c
Lower(s) == [i \in 1..Len(s) |-> LowerChar(s[i])]

-----------------------------------------------------------------------------
(* Literals of the grammar *)

H2 == <<"#", "#", " ">>
H3 == <<"#", "#", "#", " ">>
TagsZh == <<"*", "*", "U6807", "U7B7E", "*", "*", ":">>
TagsEn == <<"*", "*", "T", "a", "g", "s", "*", "*", ":">>
UrlZh == <<"*", "*", "U539F", "U6587", "U94FE", "U63A5", "*", "*", ":">>
UrlEn == <<"*", "*", "O", "r", "i", "g", "i", "n", "a", "l", " ", "U", "R", "L", "*", "*", ":">>
SlugOpen == <<"<", "!", "-", "-", " ", "S", "L", "U", "G", ":">>
CommentClose == <<"-", "-", ">">>
LinkMid == <<"]", "(">>
ImageOpen == <<"!", "[">>
SeeOpen == <<"(", "S", "e", "e", ":">>
RefOpen == <<"[", "[">>
RefClose == <<"]", "]">>
Bold == <<"*", "*">>
Bullet == <<"-", " ">>

-----------------------------------------------------------------------------
(* _parse_article_blocks of the export command *)

\* line.startswith("### ")
IsSubHeading(line) == StartsWith(line, H3)

\* The label without its colon: the split below then has no second piece.
IsTagsLineNoColon(line) ==
    \/ StartsWith(line, SubSeq(TagsZh, 1, Len(TagsZh) - 1))
    \/ StartsWith(line, SubSeq(TagsEn, 1, Len(TagsEn) - 1))

\* line.startswith(<Tags label, Chinese>) or line.startswith("**Tags**:")
IsTagsLine(line) == StartsWith(line, TagsZh) \/ StartsWith(line, TagsEn)

\* line.startswith(<URL label, Chinese>) or line.startswith("**Original URL**:")
IsUrlLine(line) == StartsWith(line, UrlZh) \/ StartsWith(line, UrlEn)

\* line.startswith("<!-- SLUG:")
IsSlugLine(line) == StartsWith(line, SlugOpen)

\* line.startswith("![")
IsImageLine(line) == StartsWith(line, ImageOpen)

\* "(See:" in line or "[[" in line
IsRefLine(line) == Contains(line, SeeOpen) \/ Contains(line, RefOpen)

\* The block a sub-heading line opens.
NewBlock(line) ==
    [title |-> Strip(PySliceFrom(line, 4)), slug |-> <<>>, content |-> <<>>,
     tags |-> <<>>, url |-> <<>>, cover_image |-> None]

\* The pieces kept as written (not trimmed).
TagsOfUntrimmed(rest) == SplitChar(Strip(rest), ",")

\* [t.strip() for t in rest.strip().split(",")]
TagsOf(rest) ==
    LET pieces == SplitChar(Strip(rest), ",")
    IN  [i \in 1..Len(pieces) |-> Strip(pieces[i])]

\* The URL of "[text](url)" in the text after the label: Some(url), or None
\* when the code assigns nothing.
LinkTarget(rest) ==
    LET url_line == Strip(rest)
        url_start == PyFind(url_line, LinkMid, 0) + 2
        url_end == PyFind(url_line, <<")">>, url_start)
    IN  IF Contains(url_line, LinkMid) /\ url_end > url_start
        THEN Some(PySlice(url_line, url_start, url_end))
        ELSE None

\* line.replace("<!-- SLUG:", "").replace("-->", "").strip()
HiddenSlug(line) == Strip(Replace(Replace(line, SlugOpen, <<>>), CommentClose, <<>>))

\* The URL of an image line "![alt](url)": Some(url), or None.
ImageTarget(line) ==
    LET img_start == PyFind(line, LinkMid, 0) + 2
        img_end == PyFind(line, <<")">>, img_start)
    IN  IF Contains(line, LinkMid) /\ img_end > img_start
        THEN Some(PySlice(line, img_start, img_end))
        ELSE None

\* The slug of a "[[value]]" reference: Some(line[start:end]), or None.
RefSlug(line) ==
    LET start == PyFind(line, RefOpen, 0) + 2
        end == PyFind(line, RefClose, start)
    IN  IF Contains(line, RefOpen) /\ Contains(line, RefClose)
        THEN Some(PySlice(line, start, end))
        ELSE None

\* "\n".join(current_content).strip()
BlockContent(body) == Strip(Join(body, NL))

\* The previous block is dropped instead of saved.
SaveBlockDrop(st) == st.blocks

\* "Save previous block" / "Save last block": the list of blocks after it.
SaveBlock(st) ==
    IF st.current_block # None
    THEN Append(st.blocks,
                [st.current_block[1] EXCEPT !.content = BlockContent(st.current_content)])
    ELSE st.blocks

\* The state of the parser before the first line.
BlockParserStart ==
    [blocks |-> <<>>, current_block |-> None, current_content |-> <<>>, raised |-> None]

\* current_block[field] = value, guarded by "if current_block:".
SetField(st, field, value) ==
    IF st.current_block # None
    THEN [st EXCEPT !.current_block = Some([st.current_block[1] EXCEPT ![field] = value])]
    ELSE st

\* One iteration of the for loop of _parse_article_blocks (export.py).
ExportBlockStep(st, line) ==
    IF st.raised # None THEN st
    ELSE IF IsSubHeading(line)
    THEN [st EXCEPT !.blocks = SaveBlock(st),
                    !.current_block = Some(NewBlock(line)),
                    !.current_content = <<>>]
    ELSE IF IsTagsLine(line)
    THEN LET parts == SplitOnce(line, ":")
         IN  IF Len(parts) < 2 THEN [st EXCEPT !.raised = Some("IndexError")]
             ELSE SetField(st, "tags", TagsOf(parts[2]))
    ELSE IF IsUrlLine(line)
    THEN LET parts == SplitOnce(line, ":")
         IN  IF Len(parts) < 2 THEN [st EXCEPT !.raised = Some("IndexError")]
             ELSE IF LinkTarget(parts[2]) # None
                  THEN SetField(st, "url", LinkTarget(parts[2])[1])
                  ELSE st
    ELSE IF IsSlugLine(line)
    THEN SetField(st, "slug", HiddenSlug(line))
    ELSE IF IsImageLine(line)
    THEN IF ImageTarget(line) # None
         THEN SetField(st, "cover_image", ImageTarget(line))
         ELSE st
    ELSE IF IsRefLine(line)
    THEN IF RefSlug(line) # None
         THEN SetField(st, "slug", RefSlug(line)[1])
         ELSE st
    ELSE [st EXCEPT !.current_content = Append(st.current_content, line)]

RECURSIVE ExportBlockLoop(_, _)
ExportBlockLoop(st, lines) ==
    IF Len(lines) = 0 THEN st
    ELSE ExportBlockLoop(ExportBlockStep(st, Head(lines)), Tail(lines))

\* _parse_article_blocks(content): [raised |-> None, value |-> the list], or
\* [raised |-> Some(exception)].
ExportParseArticleBlocks(content) ==
    LET st == ExportBlockLoop(BlockParserStart, SplitChar(content, "\n"))
    IN  IF st.raised # None THEN [raised |-> st.raised, value |-> <<>>]
        ELSE [raised |-> None, value |-> SaveBlock(st)]

-----------------------------------------------------------------------------
(* _parse_article_blocks of the email publisher and of the PDF publisher *)

\* The email copy opens a block without a cover_image key.
EmailNewBlock(line) ==
    [title |-> Strip(PySliceFrom(line, 4)), slug |-> <<>>, content |-> <<>>,
     tags |-> <<>>, url |-> <<>>]

\* One iteration of the for loop of EmailPublisher._parse_article_blocks: no
\* image branch and no reference branch.
EmailBlockStep(st, line) ==
    IF st.raised # None THEN st
    ELSE IF IsSubHeading(line)
    THEN [st EXCEPT !.blocks = SaveBlock(st),
                    !.current_block = Some(EmailNewBlock(line)),
                    !.current_content = <<>>]
    ELSE IF IsTagsLine(line)
    THEN LET parts == SplitOnce(line, ":")
         IN  IF Len(parts) < 2 THEN [st EXCEPT !.raised = Some("IndexError")]
             ELSE SetField(st, "tags", TagsOf(parts[2]))
    ELSE IF IsUrlLine(line)
    THEN LET parts == SplitOnce(line, ":")
         IN  IF Len(parts) < 2 THEN [st EXCEPT !.raised = Some("IndexError")]
             ELSE IF LinkTarget(parts[2]) # None
                  THEN SetField(st, "url", LinkTarget(parts[2])[1])
                  ELSE st
    ELSE IF IsSlugLine(line)
    THEN SetField(st, "slug", HiddenSlug(line))
    ELSE [st EXCEPT !.current_content = Append(st.current_content, line)]

RECURSIVE EmailBlockLoop(_, _)
EmailBlockLoop(st, lines) ==
    IF Len(lines) = 0 THEN st
    ELSE EmailBlockLoop(EmailBlockStep(st, Head(lines)), Tail(lines))

EmailParseArticleBlocks(content) ==
    LET st == EmailBlockLoop(BlockParserStart, SplitChar(content, "\n"))
    IN  IF st.raised # None THEN [raised |-> st.raised, value |-> <<>>]
        ELSE [raised |-> None, value |-> SaveBlock(st)]

\* The PDF copy opens a block with title, slug, content and tags only.
PdfNewBlock(line) ==
    [title |-> Strip(PySliceFrom(line, 4)), slug |-> <<>>, content |-> <<>>, tags |-> <<>>]

\* One iteration of the for loop of PDFPublisher._parse_article_blocks: the
\* Tags branch and the reference branch only.
PdfBlockStep(st, line) ==
    IF st.raised # None THEN st
    ELSE IF IsSubHeading(line)
    THEN [st EXCEPT !.blocks = SaveBlock(st),
                    !.current_block = Some(PdfNewBlock(line)),
                    !.current_content = <<>>]
    ELSE IF IsTagsLine(line)
    THEN LET parts == SplitOnce(line, ":")
         IN  IF Len(parts) < 2 THEN [st EXCEPT !.raised = Some("IndexError")]
             ELSE SetField(st, "tags", TagsOf(parts[2]))
    ELSE IF IsRefLine(line)
    THEN IF RefSlug(line) # None
         THEN SetField(st, "slug", RefSlug(line)[1])
         ELSE st
    ELSE [st EXCEPT !.current_content = Append(st.current_content, line)]

RECURSIVE PdfBlockLoop(_, _)
PdfBlockLoop(st, lines) ==
    IF Len(lines) = 0 THEN st
    ELSE PdfBlockLoop(PdfBlockStep(st, Head(lines)), Tail(lines))

PdfParseArticleBlocks(content) ==
    LET st == PdfBlockLoop(BlockParserStart, SplitChar(content, "\n"))
    IN  IF st.raised # None THEN [raised |-> st.raised, value |-> <<>>]
        ELSE [raised |-> None, value |-> SaveBlock(st)]

-----------------------------------------------------------------------------
(* _parse_news_briefs (the same code in the three copies) *)

\* line[title_end + 2:].strip(": ").strip()
BriefSummary(rest) == Strip(StripChars(rest, {":", " "}))

\* One iteration of the for loop of _parse_news_briefs: the list of briefs
\* after the line.
BriefStep(briefs, raw) ==
    IF StartsWith(Strip(raw), Bullet)
    THEN LET line == PySliceFrom(Strip(raw), 2)
             title_end == PyFind(line, Bold, 2)
         IN  IF Contains(line, Bold) /\ title_end > 0
             THEN Append(briefs, [title |-> PySlice(line, 2, title_end),
                                  summary |-> BriefSummary(PySliceFrom(line, title_end + 2)),
                                  url |-> <<>>])
             ELSE briefs
    ELSE briefs

RECURSIVE BriefLoop(_, _)
BriefLoop(briefs, lines) ==
    IF Len(lines) = 0 THEN briefs
    ELSE BriefLoop(BriefStep(briefs, Head(lines)), Tail(lines))

\* _parse_news_briefs(content)
ParseNewsBriefs(content) ==
    [raised |-> None, value |-> BriefLoop(<<>>, SplitChar(content, "\n"))]

-----------------------------------------------------------------------------
(* _parse_issue_markdown: the section splitter, in its three copies *)

KeyIntroduction == <<"i", "n", "t", "r", "o", "d", "u", "c", "t", "i", "o", "n">>
KeyTrends == <<"t", "r", "e", "n", "d", "s">>
KeyArticleBlocks == <<"a", "r", "t", "i", "c", "l", "e", "_", "b", "l", "o", "c", "k", "s">>
KeyNewsBriefs == <<"n", "e", "w", "s", "_", "b", "r", "i", "e", "f", "s">>

NameIntroductionZh == <<"U4E3B", "U7F16", "U5BFC", "U8BED">>
NameTrendsZh == <<"U6838", "U5FC3", "U8D8B", "U52BF">>
NameArticlesZh == <<"U6DF1", "U5EA6", "U6587", "U7AE0">>
NameBriefsZh == <<"U5FEB", "U8BAF", "U901F", "U89C8">>
NameIntroductionEn == <<"e", "d", "i", "t", "o", "r", "'", "s", " ", "i", "n", "t", "r", "o", "d", "u", "c", "t", "i", "o", "n">>
NameTrendsEn == <<"c", "o", "r", "e", " ", "t", "r", "e", "n", "d", "s">>
NameArticlesEn == <<"i", "n", "-", "d", "e", "p", "t", "h", " ", "a", "r", "t", "i", "c", "l", "e", "s">>
NameBriefsEn == <<"n", "e", "w", "s", " ", "b", "r", "i", "e", "f", "s">>

\* A value of the sections dict: a str or a list.
Str(s) == [type |-> "str", v |-> s]
List(l) == [type |-> "list", v |-> l]

\* d[key] = value
Put(d, key, value) ==
    [k \in DOMAIN d \cup {key} |-> IF k = key THEN value ELSE d[k]]

\* d.get(key, default)
Get(d, key, default) == IF key \in DOMAIN d THEN d[key] ELSE default

\* The sections dict as _parse_issue_markdown creates it.
InitialSections ==
    (KeyIntroduction :> Str(<<>>)) @@ (KeyTrends :> Str(<<>>))
        @@ (KeyArticleBlocks :> List(<<>>)) @@ (KeyNewsBriefs :> List(<<>>))

\* section_map of the export command and of the email publisher: the Chinese
\* names only.
SectionMap ==
    (NameIntroductionZh :> KeyIntroduction) @@ (NameTrendsZh :> KeyTrends)
        @@ (NameArticlesZh :> KeyArticleBlocks) @@ (NameBriefsZh :> KeyNewsBriefs)

\* name_map of PDFPublisher._normalize_section_name: both names of each section.
NameMap ==
    SectionMap
        @@ (NameIntroductionEn :> KeyIntroduction) @@ (NameTrendsEn :> KeyTrends)
        @@ (NameArticlesEn :> KeyArticleBlocks) @@ (NameBriefsEn :> KeyNewsBriefs)

\* name.lower().replace(" ", "_")
DerivedKey(name) == Replace(Lower(name), <<" ">>, <<"_">>)

\* section_map.get(section_name, section_name.lower().replace(" ", "_"))
ExportSectionKey(section_name) == Get(SectionMap, section_name, DerivedKey(section_name))

\* The same expression in EmailPublisher._parse_issue_markdown.
EmailSectionKey(section_name) == Get(SectionMap, section_name, DerivedKey(section_name))

\* name_map.get(name.lower(), name.lower().replace(" ", "_"))
PdfNormalizeSectionName(name) == Get(NameMap, Lower(name), DerivedKey(name))

\* "Start new section": the key of a heading line, by copy.
SectionKey(cp, line) ==
    LET section_name == Strip(PySliceFrom(line, 3))
    IN  CASE cp = "export" -> ExportSectionKey(section_name)
          [] cp = "email" -> EmailSectionKey(section_name)
          [] cp = "pdf" -> PdfNormalizeSectionName(section_name)

\* The article block parser each copy calls.
ParseArticleBlocks(cp, content) ==
    CASE cp = "export" -> ExportParseArticleBlocks(content)
      [] cp = "email" -> EmailParseArticleBlocks(content)
      [] cp = "pdf" -> PdfParseArticleBlocks(content)

\* The flush "Save previous section" / "Save last section": the sections dict
\* after it, or the exception a parser raised.  "if current_section:" is false
\* for None and for the empty key.
Flush(cp, secs, section, content) ==
    IF section = None \/ section[1] = <<>>
    THEN [raised |-> None, sections |-> secs]
    ELSE IF section[1] = KeyArticleBlocks
    THEN LET r == ParseArticleBlocks(cp, Join(content, NL))
         IN  IF r.raised # None THEN [raised |-> r.raised, sections |-> secs]
             ELSE [raised |-> None, sections |-> Put(secs, section[1], List(r.value))]
    ELSE IF section[1] = KeyNewsBriefs
    THEN LET r == ParseNewsBriefs(Join(content, NL))
         IN  [raised |-> None, sections |-> Put(secs, section[1], List(r.value))]
    ELSE [raised |-> None,
          sections |-> Put(secs, section[1], Str(Strip(Join(content, NL))))]

\* lines = markdown.split("\n")
Lines == SplitChar(markdown, "\n")

\* The for loop at a line that starts with "## ": flush, then start the new
\* section.
SplitHeadingLine ==
    /\ pc = "loop"
    /\ n < Len(Lines)
    /\ StartsWith(Lines[n + 1], H2)
    /\ LET f == Flush(copy, sections, current_section, current_content)
       IN  IF f.raised # None
           THEN /\ pc' = "raised"
                /\ UNCHANGED <<n, current_section, current_content, sections>>
           ELSE /\ sections' = f.sections
                /\ current_section' = Some(SectionKey(copy, Lines[n + 1]))
                /\ current_content' = <<>>
                /\ n' = n + 1
                /\ pc' = "loop"
    /\ UNCHANGED <<copy, markdown>>
    /\ UNCHANGED <<callVars, frames, db>>

\* The for loop at any other line: current_content.append(line).
SplitContentLine ==
    /\ pc = "loop"
    /\ n < Len(Lines)
    /\ ~StartsWith(Lines[n + 1], H2)
    /\ current_content' = Append(current_content, Lines[n + 1])
    /\ n' = n + 1
    /\ UNCHANGED <<copy, markdown, pc, current_section, sections>>
    /\ UNCHANGED <<callVars, frames, db>>

\* After the loop: "Save last section" and return sections.
SplitReturn ==
    /\ pc = "loop"
    /\ n = Len(Lines)
    /\ LET f == Flush(copy, sections, current_section, current_content)
       IN  IF f.raised # None
           THEN pc' = "raised" /\ UNCHANGED sections
           ELSE pc' = "done" /\ sections' = f.sections
    /\ UNCHANGED <<copy, markdown, n, current_section, current_content>>
    /\ UNCHANGED <<callVars, frames, db>>

-----------------------------------------------------------------------------
(* Inputs *)

\* All sequences over S of length at most k.
SeqsUpTo(S, k) == UNION {[1..m -> S] : m \in 0..k}

\* The lines a section text given to _parse_article_blocks is made of.
MaxBlockLines == 3

LineHeadA == H3 \o <<"A">>
LineHeadB == H3 \o <<" ", "B", " ">>
LineHeadEmpty == H3
LineTagsEn == TagsEn \o <<" ", "a", ",", " ", "b">>
LineTagsZh == TagsZh \o <<"c">>
LineTagsIndented == <<" ">> \o TagsEn \o <<" ", "a">>
LineTagsNoColon == SubSeq(TagsEn, 1, Len(TagsEn) - 1) \o <<" ", "a">>
LineUrlEn == UrlEn \o <<" ", "[", "t", "]", "(", "u", ")">>
LineUrlZhNoLink == UrlZh \o <<" ", "u">>
LineSlug == SlugOpen \o <<" ", "s", " ">> \o CommentClose
LineBody == <<"x">>
LineBlank == <<>>
LineBodyY == <<"y">>
LineRef == <<"y", " ", "[", "[", "r", "]", "]">>
LineImage == <<"!", "[", "i", "]", "(", "p", ")">>

BlockLinePool ==
    {LineHeadA, LineHeadB, LineHeadEmpty, LineTagsEn, LineTagsZh, LineTagsIndented,
     LineTagsNoColon, LineUrlEn, LineUrlZhNoLink, LineSlug, LineBody, LineBlank,
     LineRef, LineImage}

\* One whole block: a sub-heading, three annotation lines in any order (the
\* same one may repeat), a body line.
AnnotationLines ==
    {LineTagsEn, LineTagsZh, LineTagsIndented, LineUrlEn, LineUrlZhNoLink, LineSlug}
FullBlocks ==
    {<<h, a1, a2, a3, b>> : h \in {LineHeadA, LineHeadB},
                            a1 \in AnnotationLines, a2 \in AnnotationLines,
                            a3 \in AnnotationLines, b \in {LineBody, LineBlank}}

\* One block with a line that starts like an annotation without its form: an
\* Original-URL label without a link, an image opener without its close, a
\* reference opener without its close, a "(See:" without a reference.
LineImageOpen == <<"!", "[", "i", "]", "(", "p">>
LineRefOpen == <<"y", " ", "[", "[", "r">>
LineSee == <<"(", "S", "e", "e", ":", " ", "z", ")">>
UnmatchedLines == {LineUrlZhNoLink, LineImageOpen, LineRefOpen, LineSee}
DegradedBlocks ==
    {<<LineHeadA, m, LineBody>> : m \in UnmatchedLines}
        \cup {<<LineHeadA, LineBody, m, LineBodyY>> : m \in UnmatchedLines}

Idle == [done |-> FALSE]

\* The splitter at rest (the function-call specifications leave it there).
SplitIdle ==
    /\ copy = "export"
    /\ markdown = <<>>
    /\ pc = "idle"
    /\ n = 0
    /\ current_section = None
    /\ current_content = <<>>
    /\ sections = <<>>
    /\ frames = <<>>
    /\ db = <<>>

-----------------------------------------------------------------------------
(* SpecBlocks: _parse_article_blocks applied to every section text *)

InitBlocks ==
    /\ SplitIdle
    /\ fn = "_parse_article_blocks"
    /\ \E lines \in SeqsUpTo(BlockLinePool, MaxBlockLines) \cup FullBlocks \cup DegradedBlocks :
          arg = Join(lines, NL)
    /\ ret = Idle

CallParseArticleBlocks ==
    /\ fn = "_parse_article_blocks"
    /\ ret = Idle
    /\ ret' = [done |-> TRUE] @@ ExportParseArticleBlocks(arg)
    /\ UNCHANGED <<fn, arg>>
    /\ UNCHANGED <<splitVars, frames, db>>

NextBlocks == CallParseArticleBlocks

SpecBlocks == InitBlocks /\ [][NextBlocks]_vars

-----------------------------------------------------------------------------
(* SpecBriefs: _parse_news_briefs applied to every section text *)

MaxBriefLines == 3

LineBrief == <<"-", " ", "*", "*", "T", "*", "*", ":", " ", "a">>
LineBriefColonEnd == <<"-", " ", "*", "*", "T", "*", "*", ":", " ", "a", ":">>
LineBriefIndented == <<" ", " ", "-", " ", "*", "*", "U", "*", "*", " ", "b", " ">>
LineBriefStar == <<"-", " ", "*", "*", "*", "y", "*", "*">>
LineBriefLate == <<"-", " ", "x", " ", "*", "*", "b", "*", "*", " ", "c">>
LineBriefPlain == <<"-", " ", "p">>
LineBriefOpen == <<"-", " ", "*", "*", "o">>
LineBriefOther == <<"*", " ", "*", "*", "S", "*", "*", ":", " ", "z">>

BriefLinePool ==
    {LineBrief, LineBriefColonEnd, LineBriefIndented, LineBriefStar, LineBriefLate,
     LineBriefPlain, LineBriefOpen, LineBriefOther, LineBody, LineBlank}

InitBriefs ==
    /\ SplitIdle
    /\ fn = "_parse_news_briefs"
    /\ \E lines \in SeqsUpTo(BriefLinePool, MaxBriefLines) : arg = Join(lines, NL)
    /\ ret = Idle

CallParseNewsBriefs ==
    /\ fn = "_parse_news_briefs"
    /\ ret = Idle
    /\ ret' = [done |-> TRUE] @@ ParseNewsBriefs(arg)
    /\ UNCHANGED <<fn, arg>>
    /\ UNCHANGED <<splitVars, frames, db>>

NextBriefs == CallParseNewsBriefs

SpecBriefs == InitBriefs /\ [][NextBriefs]_vars

-----------------------------------------------------------------------------
(* Spec: _parse_issue_markdown, each copy, applied to every document *)

MaxDocLines == 3

Copies == {"export", "email", "pdf"}

HeadingIntroductionEn == <<"E", "d", "i", "t", "o", "r", "'", "s", " ", "I", "n", "t", "r", "o", "d", "u", "c", "t", "i", "o", "n">>
HeadingTrendsEn == <<"C", "o", "r", "e", " ", "T", "r", "e", "n", "d", "s">>
HeadingArticlesEn == <<"I", "n", "-", "d", "e", "p", "t", "h", " ", "A", "r", "t", "i", "c", "l", "e", "s">>
HeadingBriefsEn == <<"N", "e", "w", "s", " ", "B", "r", "i", "e", "f", "s">>
NameTrendsBare == <<"T", "r", "e", "n", "d", "s">>
NameOther == <<"O", "t", "h", "e", "r", " ", "X">>

LineUrlOpen == UrlEn \o <<" ", "[", "t", "]", "(", "u">>
LineUrlZh == UrlZh \o <<" ", "[", "t", "]", "(", "u", ")">>
LineBodyPadded == <<" ", "x", " ">>

\* Documents of at most MaxDocLines lines over these lines.
DocLinePool ==
    {H2 \o NameTrendsZh, H2 \o NameArticlesZh, H2 \o NameBriefsZh, H2 \o NameTrendsBare,
     H2, LineBody, LineHeadA, LineTagsNoColon, LineBriefColonEnd, LineUrlOpen}

\* Documents of one heading and one line, for every heading name.
HeadingNames ==
    {NameIntroductionZh, NameTrendsZh, NameArticlesZh, NameBriefsZh,
     HeadingIntroductionEn, HeadingTrendsEn, HeadingArticlesEn, HeadingBriefsEn,
     NameTrendsBare, NameOther, <<>>}
NameDocs == {<<H2 \o name, body>> : name \in HeadingNames, body \in {LineBody, LineBodyY}}

\* Documents of the end-to-end shape: a trends heading and prose, an article
\* heading, one sub-heading, a Tags line, an Original-URL line, a hidden slug
\* and body lines.
EndToEndDocs ==
    {<<H2 \o th>> \o prose \o <<H2 \o ah, sh, tags, url, LineSlug>> \o body :
        th \in {NameTrendsZh, HeadingTrendsEn},
        prose \in {<<LineBody>>, <<LineBody, LineBlank>>, <<LineBlank, LineBodyPadded, LineBlank>>},
        ah \in {NameArticlesZh, HeadingArticlesEn},
        sh \in {LineHeadA, LineHeadB},
        tags \in {LineTagsEn, LineTagsZh},
        url \in {LineUrlEn, LineUrlZh},
        body \in {<<LineBody>>, <<LineBody, LineBodyY>>}}

\* Documents with two sections under names of one canonical section.
DuplicateDocs ==
    {<<H2 \o a>> \o first \o <<H2 \o b>> \o second :
        a \in {NameTrendsZh, HeadingTrendsEn, NameArticlesZh, HeadingArticlesEn},
        b \in {NameTrendsZh, HeadingTrendsEn, NameArticlesZh, HeadingArticlesEn},
        first \in {<<LineBody>>, <<LineHeadA, LineBody>>},
        second \in {<<LineBodyY>>, <<LineHeadB>>, <<>>}}

Documents ==
    SeqsUpTo(DocLinePool, MaxDocLines) \cup NameDocs \cup EndToEndDocs \cup DuplicateDocs

CallIdle == fn = "none" /\ arg = <<>> /\ ret = Idle

Init ==
    /\ db = <<>>
    /\ copy \in Copies
    /\ \E lines \in Documents : markdown = Join(lines, NL)
    /\ pc = "loop"
    /\ n = 0
    /\ current_section = None
    /\ current_content = <<>>
    /\ sections = InitialSections
    /\ CallIdle
    /\ frames = <<>>

Next == SplitHeadingLine \/ SplitContentLine \/ SplitReturn

Spec == Init /\ [][Next]_vars

-----------------------------------------------------------------------------
(* The enrichment loop of the generate command *)

\* Values of a composed block's keys: a key may be missing, hold None, a str,
\* a list, or what json.loads made of a str.
Missing == [type |-> "missing", v |-> <<>>]
PyNone == [type |-> "none", v |-> <<>>]
Num(digits) == [type |-> "num", v |-> digits]
Dict(d) == [type |-> "dict", v |-> d]

\* bool(value)
Truthy(x) ==
    CASE x.type = "missing" -> FALSE
      [] x.type = "none" -> FALSE
      [] x.type = "num" -> x.v # <<"0">>
      [] OTHER -> x.v # <<>>

Digits == {"0", "1", "2", "3", "4", "5", "6", "7", "8", "9"}

\* A JSON string literal without escapes, and a JSON integer.
IsJsonString(t) ==
    /\ Len(t) >= 2
    /\ t[1] = "\""
    /\ t[Len(t)] = "\""
    /\ \A i \in 2..(Len(t) - 1) : t[i] \notin {"\"", "\\"}
IsJsonInt(t) ==
    /\ Len(t) >= 1
    /\ \A i \in 1..Len(t) : t[i] \in Digits
    /\ (Len(t) > 1 => t[1] # "0")

\* A JSON scalar of the fragment.
JsonScalar(t) ==
    IF IsJsonString(t) THEN [ok |-> TRUE, value |-> Str(SubSeq(t, 2, Len(t) - 1))]
    ELSE IF IsJsonInt(t) THEN [ok |-> TRUE, value |-> Num(t)]
    ELSE IF t = <<"n", "u", "l", "l">> THEN [ok |-> TRUE, value |-> PyNone]
    ELSE [ok |-> FALSE, value |-> PyNone]

\* json.loads on the fragment of JSON the tags values range over: arrays of
\* strings without commas or escapes, strings, integers, null and the empty
\* object; any other text is a JSONDecodeError (ok is FALSE).
JsonLoads(s) ==
    LET t == Strip(s)
        inner == Strip(PySlice(t, 1, -1))
        items == SplitChar(inner, ",")
    IN  IF Len(t) >= 2 /\ t[1] = "[" /\ t[Len(t)] = "]"
        THEN IF inner = <<>> THEN [ok |-> TRUE, value |-> List(<<>>)]
             ELSE IF \A j \in 1..Len(items) : IsJsonString(Strip(items[j]))
             THEN [ok |-> TRUE,
                   value |-> List([j \in 1..Len(items) |->
                                      JsonScalar(Strip(items[j])).value.v])]
             ELSE [ok |-> FALSE, value |-> PyNone]
        ELSE IF Len(t) >= 2 /\ t[1] = "{" /\ Strip(PySlice(t, 1, -1)) = <<>>
                  /\ t[Len(t)] = "}"
        THEN [ok |-> TRUE, value |-> Dict(<<>>)]
        ELSE JsonScalar(t)

\* The longest run of digits int() converts (sys.int_info.default_max_str_digits
\* of CPython 3.11); json.loads of a longer integer raises ValueError, which is
\* not a JSONDecodeError.  (An integer that long is delivered without white
\* space around it.)
MaxStrDigits == 4300
JsonLoadsRaises(s) == Len(s) > MaxStrDigits /\ IsJsonInt(s)

\* slug_to_url.get(block.get("slug", ""), ""), and the two like it: articles
\* is the function from the slugs of the queried articles to their records.
BlockSlug(block) == IF block.slug.type = "missing" THEN Str(<<>>) ELSE block.slug
HasArticle(articles, block) ==
    BlockSlug(block).type = "str" /\ BlockSlug(block).v \in DOMAIN articles
SlugToUrl(articles, block) ==
    IF HasArticle(articles, block) THEN articles[BlockSlug(block).v].url ELSE Str(<<>>)
SlugToCover(articles, block) ==
    IF HasArticle(articles, block) THEN articles[BlockSlug(block).v].cover_image ELSE PyNone
SlugToTags(articles, block) ==
    IF HasArticle(articles, block) THEN articles[BlockSlug(block).v].tags ELSE List(<<>>)

\* The assignment without its condition.
FillUrlAlways(articles, block) == [block EXCEPT !.url = SlugToUrl(articles, block)]

\* if "url" not in block or not block["url"]
FillUrl(articles, block) ==
    IF block.url.type = "missing" \/ ~Truthy(block.url)
    THEN [block EXCEPT !.url = SlugToUrl(articles, block)]
    ELSE block

\* if "cover_image" not in block or not block["cover_image"]
FillCover(articles, block) ==
    IF block.cover_image.type = "missing" \/ ~Truthy(block.cover_image)
    THEN [block EXCEPT !.cover_image = SlugToCover(articles, block)]
    ELSE block

\* if "tags" in block and isinstance(block["tags"], str): json.loads, and the
\* raw string as the one tag on JSONDecodeError
DecodeTags(block) ==
    IF block.tags.type = "str"
    THEN IF JsonLoads(block.tags.v).ok
         THEN [block EXCEPT !.tags = JsonLoads(block.tags.v).value]
         ELSE [block EXCEPT !.tags = List(<<block.tags.v>>)]
    ELSE block

\* if not block.get("tags")
FillTags(articles, block) ==
    IF ~Truthy(block.tags)
    THEN [block EXCEPT !.tags = SlugToTags(articles, block)]
    ELSE block

\* The body of the loop, for one block.
EnrichBlock(articles, block) ==
    FillTags(articles, DecodeTags(FillCover(articles, FillUrl(articles, block))))

\* json.loads(block["tags"]) raises an exception the except clause does not
\* catch: the loop, and generate with it, ends there.
DecodeRaises(block) == block.tags.type = "str" /\ JsonLoadsRaises(block.tags.v)
RaisingBlocks(blocks) == {i \in 1..Len(blocks) : DecodeRaises(blocks[i])}
EnrichRaised(blocks) == IF RaisingBlocks(blocks) = {} THEN None ELSE Some("ValueError")

\* for block in issue_data.get("article_blocks", []): the blocks as the loop
\* leaves them.  When a decode raises, the blocks before that one are enriched,
\* that one has its url and cover filled, and the later ones are untouched.
Enrich(articles, blocks) ==
    [i \in 1..Len(blocks) |->
        IF RaisingBlocks(blocks) = {} \/ i < Min(RaisingBlocks(blocks))
        THEN EnrichBlock(articles, blocks[i])
        ELSE IF i = Min(RaisingBlocks(blocks))
        THEN FillCover(articles, FillUrl(articles, blocks[i]))
        ELSE blocks[i]]

MaxEnrichBlocks == 1

SlugS == <<"s">>
TagsJsonArray == <<"[", "\"", "t", "\"", ",", " ", "\"", "v", "\"", "]">>
TagsJsonEmpty == <<"[", "]">>
TagsJsonString == <<"\"", "t", "\"">>
TagsNotJson == <<"t", ",", "v">>
TagsLongInt == [i \in 1..(MaxStrDigits + 1) |-> "1"]

\* Composed blocks: each key missing, empty or set.
ComposedBlocks ==
    [slug : {Missing, Str(SlugS), Str(<<"z">>)},
     url : {Missing, Str(<<>>), Str(<<"a">>)},
     cover_image : {Missing, PyNone, Str(<<"c">>)},
     tags : {Missing, List(<<>>), List(<<<<"t">>>>), Str(TagsJsonArray),
             Str(TagsJsonEmpty), Str(TagsJsonString), Str(TagsNotJson)}]

\* The queried articles: none with the slug, or one whose fields differ from
\* every composed value.
ArticleSets ==
    {<<>>} \cup
    {(SlugS :> [url |-> Str(<<"b">>), cover_image |-> cover, tags |-> List(tags)]) :
        cover \in {PyNone, Str(<<"d">>)}, tags \in {<<>>, <<<<"u">>>>}}

\* Sequences of two and three blocks, one of them with tags that are a string
\* json.loads rejects, the others with keys to fill.
UndecodableBlocks ==
    [slug : {Str(SlugS)}, url : {Missing}, cover_image : {Missing},
     tags : {Str(TagsNotJson), Str(<<>>), Str(<<"[", "t">>), Str(TagsLongInt)}]
FillableBlocks ==
    [slug : {Str(SlugS)}, url : {Missing, Str(<<>>)}, cover_image : {Missing},
     tags : {Missing, Str(TagsJsonArray)}]
UndecodableSequences ==
    {<<a, b>> : a \in UndecodableBlocks, b \in FillableBlocks}
        \cup {<<b, a>> : a \in UndecodableBlocks, b \in FillableBlocks}
        \cup {<<b, a, c>> : a \in UndecodableBlocks, b \in FillableBlocks, c \in FillableBlocks}

InitEnrich ==
    /\ SplitIdle
    /\ fn = "enrich"
    /\ \E articles \in ArticleSets,
          blocks \in SeqsUpTo(ComposedBlocks, MaxEnrichBlocks) \cup UndecodableSequences :
          arg = [articles |-> articles, blocks |-> blocks]
    /\ ret = Idle

CallEnrich ==
    /\ fn = "enrich"
    /\ ret = Idle
    /\ ret' = [done |-> TRUE, raised |-> EnrichRaised(arg.blocks),
               value |-> Enrich(arg.articles, arg.blocks)]
    /\ UNCHANGED <<fn, arg>>
    /\ UNCHANGED <<splitVars, frames, db>>

NextEnrich == CallEnrich

SpecEnrich == InitEnrich /\ [][NextEnrich]_vars

-----------------------------------------------------------------------------
(* _markdown_to_html of the export command *)

\* The characters the long-paragraph rule splits at: the ideographic full
\* stop, the fullwidth exclamation mark, question mark, semicolon and comma.
Boundaries == {"U3002", "UFF01", "UFF1F", "UFF1B", "UFF0C"}

\* len(para_text) > 100
ParagraphThreshold == 100

\* Markup of the output.
H4Open == <<"<", "h", "4", ">">>
H4Close == <<"<", "/", "h", "4", ">">>
StrongOpen == <<"<", "s", "t", "r", "o", "n", "g", ">">>
StrongClose == <<"<", "/", "s", "t", "r", "o", "n", "g", ">">>
EmOpen == <<"<", "e", "m", ">">>
EmClose == <<"<", "/", "e", "m", ">">>
CodeOpen == <<"<", "c", "o", "d", "e", ">">>
CodeClose == <<"<", "/", "c", "o", "d", "e", ">">>
AOpen == <<"<", "a", " ", "h", "r", "e", "f", "=", "\"">>
AMid == <<"\"", ">">>
AClose == <<"<", "/", "a", ">">>
POpen == <<"<", "p", ">">>
PClose == <<"<", "/", "p", ">">>
Br == <<"<", "b", "r", "/", ">">>
UlOpen == <<"<", "u", "l", ">">>
UlClose == <<"<", "/", "u", "l", ">">>
LiOpen == <<"<", "l", "i", ">">>
LiClose == <<"<", "/", "l", "i", ">">>
TrendItemOpen == <<"<", "d", "i", "v", " ", "c", "l", "a", "s", "s", "=", "\"", "t", "r", "e", "n", "d", "-", "i", "t", "e", "m", "\"", ">">>
TrendNumberOpen == <<"<", "s", "p", "a", "n", " ", "c", "l", "a", "s", "s", "=", "\"", "t", "r", "e", "n", "d", "-", "n", "u", "m", "b", "e", "r", "\"", ">">>
SpanClose == <<"<", "/", "s", "p", "a", "n", ">">>
TrendTitleOpen == <<"<", "s", "t", "r", "o", "n", "g", " ", "c", "l", "a", "s", "s", "=", "\"", "t", "r", "e", "n", "d", "-", "t", "i", "t", "l", "e", "\"", ">">>
DivClose == <<"<", "/", "d", "i", "v", ">">>
NumberedOpen == <<"<", "p", " ", "c", "l", "a", "s", "s", "=", "\"", "n", "u", "m", "b", "e", "r", "e", "d", "-", "p", "a", "r", "a", "g", "r", "a", "p", "h", "\"", ">", "<", "s", "t", "r", "o", "n", "g", ">">>

\* The first place at or after i where s holds c, or Len(s) + 1.
NextChar(s, c, i) ==
    LET hits == {q \in i..Len(s) : s[q] = c}
    IN  IF hits = {} THEN Len(s) + 1 ELSE Min(hits)

\* The first place at or after i where s holds c twice in a row, or Len(s) + 1.
NextPair(s, c, i) ==
    LET hits == {q \in i..(Len(s) - 1) : s[q] = c /\ s[q + 1] = c}
    IN  IF hits = {} THEN Len(s) + 1 ELSE Min(hits)

\* The first place at or after i where s holds no whitespace, or Len(s) + 1.
SkipSpace(s, i) ==
    LET hits == {q \in i..Len(s) : s[q] \notin Whitespace}
    IN  IF hits = {} THEN Len(s) + 1 ELSE Min(hits)

\* The first place at or after i where s holds no digit, or Len(s) + 1.
SkipDigits(s, i) ==
    LET hits == {q \in i..Len(s) : s[q] \notin Digits}
    IN  IF hits = {} THEN Len(s) + 1 ELSE Min(hits)

NoMatch == [ok |-> FALSE, next |-> 0, out |-> <<>>]

\* r'^###\s+(.*?)$' with re.MULTILINE, replaced by <h4>\1</h4>: the run of
\* whitespace after the marker is greedy and takes newlines too.
MatchHeading(s, p) ==
    IF /\ (p = 1 \/ s[p - 1] = "\n")
       /\ p + 3 <= Len(s)
       /\ SubSeq(s, p, p + 2) = <<"#", "#", "#">>
       /\ s[p + 3] \in Whitespace
    THEN LET w == SkipSpace(s, p + 3)
             e == NextChar(s, "\n", w)
         IN  [ok |-> TRUE, next |-> e,
              out |-> H4Open \o SubSeq(s, w, e - 1) \o H4Close]
    ELSE NoMatch

\* r'\*\*(.*?)\*\*' and r'__(.*?)__', replaced by <strong>\1</strong>: the
\* closing pair is the first one on the same line.
MatchStrong(s, p, c) ==
    IF p + 1 <= Len(s) /\ s[p] = c /\ s[p + 1] = c
    THEN LET q == NextPair(s, c, p + 2)
         IN  IF q <= Len(s) /\ q < NextChar(s, "\n", p + 2)
             THEN [ok |-> TRUE, next |-> q + 2,
                   out |-> StrongOpen \o SubSeq(s, p + 2, q - 1) \o StrongClose]
             ELSE NoMatch
    ELSE NoMatch

\* r'(?<!\*)\*([^*]+)\*(?!\*)' and r'(?<!_)_([^_]+)_(?!_)', replaced by
\* <em>\1</em>.
MatchEm(s, p, c) ==
    IF s[p] = c /\ (p = 1 \/ s[p - 1] # c)
    THEN LET q == NextChar(s, c, p + 1)
         IN  IF q <= Len(s) /\ q >= p + 2 /\ (q = Len(s) \/ s[q + 1] # c)
             THEN [ok |-> TRUE, next |-> q + 1,
                   out |-> EmOpen \o SubSeq(s, p + 1, q - 1) \o EmClose]
             ELSE NoMatch
    ELSE NoMatch

\* The code pattern (a backquote, written "U0060", one or more characters other than a
\* backquote, a backquote), replaced by <code>\1</code>.
MatchCode(s, p) ==
    IF s[p] = "U0060"
    THEN LET q == NextChar(s, "U0060", p + 1)
         IN  IF q <= Len(s) /\ q >= p + 2
             THEN [ok |-> TRUE, next |-> q + 1,
                   out |-> CodeOpen \o SubSeq(s, p + 1, q - 1) \o CodeClose]
             ELSE NoMatch
    ELSE NoMatch

\* The link pattern (a bracketed text without a closing bracket in it, then a
\* parenthesised target without a closing parenthesis in it), replaced by
\* <a href="\2">\1</a>.
MatchLink(s, p) ==
    IF s[p] = "["
    THEN LET q == NextChar(s, "]", p + 1)
             r == NextChar(s, ")", q + 2)
         IN  IF /\ q < Len(s)
                /\ q >= p + 2
                /\ s[q + 1] = "("
                /\ r <= Len(s)
                /\ r >= q + 3
             THEN [ok |-> TRUE, next |-> r + 1,
                   out |-> AOpen \o SubSeq(s, q + 2, r - 1) \o AMid
                             \o SubSeq(s, p + 1, q - 1) \o AClose]
             ELSE NoMatch
    ELSE NoMatch

\* The match of one of the seven patterns at place p.
\* r'<!-- SLUG:[^ ]+ -->\n?' (ObsidianPublisher.publish_issue), replaced by '':
\* the opener, one or more characters that are not a space (a newline is one),
\* then " -->" and a newline if there is one.
MatchSlugComment(s, p) ==
    LET start == p + Len(SlugOpen)
        sp == NextChar(s, " ", start)
    IN  IF /\ start - 1 <= Len(s)
           /\ SubSeq(s, p, start - 1) = SlugOpen
           /\ sp > start
           /\ sp + 3 <= Len(s)
           /\ SubSeq(s, sp, sp + 3) = <<" ">> \o CommentClose
        THEN [ok |-> TRUE,
              next |-> IF sp + 4 <= Len(s) /\ s[sp + 4] = "\n" THEN sp + 5 ELSE sp + 4,
              out |-> <<>>]
        ELSE NoMatch

MatchAt(kind, s, p) ==
    CASE kind = "heading" -> MatchHeading(s, p)
      [] kind = "bold" -> MatchStrong(s, p, "*")
      [] kind = "bold_underscore" -> MatchStrong(s, p, "_")
      [] kind = "italic" -> MatchEm(s, p, "*")
      [] kind = "italic_underscore" -> MatchEm(s, p, "_")
      [] kind = "code" -> MatchCode(s, p)
      [] kind = "link" -> MatchLink(s, p)
      [] kind = "slug_comment" -> MatchSlugComment(s, p)

\* re.sub: the matches are taken leftmost first and do not overlap.
RECURSIVE ReSubFrom(_, _, _, _)
ReSubFrom(kind, s, i, starts) ==
    LET cand == {p \in starts : p >= i}
    IN  IF cand = {} THEN SubSeq(s, i, Len(s))
        ELSE LET p == Min(cand)
                 m == MatchAt(kind, s, p)
             IN  SubSeq(s, i, p - 1) \o m.out \o ReSubFrom(kind, s, m.next, starts)

ReSub(kind, s) == ReSubFrom(kind, s, 1, {p \in 1..Len(s) : MatchAt(kind, s, p).ok})

\* The seven substitutions on the whole text, in the order of the code.
InlinePass(markdown_text) ==
    ReSub("link", ReSub("code", ReSub("italic_underscore", ReSub("italic",
        ReSub("bold_underscore", ReSub("bold", ReSub("heading", markdown_text)))))))

\* re.split(r'([...])', para_text): the texts between the boundary characters
\* and the boundary characters themselves, alternating.
ReSplitBoundaries(para_text) ==
    LET pos == {i \in 1..Len(para_text) : para_text[i] \in Boundaries}
        k == Cardinality(pos)
        cut(j) ==
            IF j = 0 THEN 0
            ELSE IF j = k + 1 THEN Len(para_text) + 1
            ELSE CHOOSE x \in pos : Cardinality({y \in pos : y <= x}) = j
    IN  [m \in 1..(2 * k + 1) |->
            IF m % 2 = 1
            THEN SubSeq(para_text, cut((m - 1) \div 2) + 1, cut((m + 1) \div 2) - 1)
            ELSE <<para_text[cut(m \div 2)]>>]

\* The loop over the sentences: each non-empty one, and a break after it when
\* it is not the last and ends with a boundary character.
RECURSIVE ParaWithBreaksNotLast(_, _)
ParaWithBreaksNotLast(sentences, i) ==
    IF i > Len(sentences) THEN <<>>
    ELSE LET sent == sentences[i]
             piece ==
                 IF sent = <<>> THEN <<>>
                 ELSE IF i < Len(sentences) - 1 /\ sent[Len(sent)] \in Boundaries
                 THEN sent \o Br
                 ELSE sent
         IN  piece \o ParaWithBreaksNotLast(sentences, i + 1)
RECURSIVE ParaWithBreaks(_, _)
ParaWithBreaks(sentences, i) ==
    IF i > Len(sentences) THEN <<>>
    ELSE LET sent == sentences[i]
             piece ==
                 IF sent = <<>> THEN <<>>
                 ELSE IF i < Len(sentences) /\ sent[Len(sent)] \in Boundaries
                 THEN sent \o Br
                 ELSE sent
         IN  piece \o ParaWithBreaks(sentences, i + 1)

\* The paragraph of a blank line and of the end of the text.
SplitParagraph(current_paragraph) ==
    LET para_text == Join(current_paragraph, <<" ">>)
    IN  IF Len(para_text) > ParagraphThreshold
        THEN POpen \o ParaWithBreaks(ReSplitBoundaries(para_text), 1) \o PClose
        ELSE POpen \o para_text \o PClose

\* The paragraph of a heading line and of a trend item.
PlainParagraph(current_paragraph) ==
    POpen \o Join(current_paragraph, <<" ">>) \o PClose

\* r'^(\d+)\.\s+\*\*(.*?)\*\*:\s*(.*)' on a line: the number, the title and
\* the content.
MatchTrendItem(line) ==
    LET d == SkipDigits(line, 1)
        w == SkipSpace(line, d + 1)
        hits == {q \in (w + 2)..(Len(line) - 2) :
                    line[q] = "*" /\ line[q + 1] = "*" /\ line[q + 2] = ":"}
    IN  IF /\ d > 1
           /\ d <= Len(line)
           /\ line[d] = "."
           /\ w > d + 1
           /\ w + 1 <= Len(line)
           /\ line[w] = "*"
           /\ line[w + 1] = "*"
           /\ hits # {}
        THEN LET q == Min(hits)
                 c == SkipSpace(line, q + 3)
             IN  [ok |-> TRUE,
                  number |-> SubSeq(line, 1, d - 1),
                  title |-> SubSeq(line, w + 2, q - 1),
                  content |-> SubSeq(line, c, Len(line))]
        ELSE [ok |-> FALSE, number |-> <<>>, title |-> <<>>, content |-> <<>>]

\* r'^\d+\.\s+' on a line.
IsNumberedLine(line) ==
    LET d == SkipDigits(line, 1)
    IN  d > 1 /\ d < Len(line) /\ line[d] = "." /\ line[d + 1] \in Whitespace

\* line.startswith(('-', '*', '+'))
IsBulletLine(line) == Len(line) >= 1 /\ line[1] \in {"-", "*", "+"}

FormatterStart ==
    [result |-> <<>>, current_paragraph |-> <<>>,
     in_bullet_list |-> FALSE, in_numbered_list |-> FALSE]

\* The body of the loop over the lines.
HtmlStep(st, raw) ==
    LET line == Strip(raw)
        pending == st.current_paragraph # <<>>
    IN  IF line = <<>>
        THEN [result |->
                  st.result
                    \o (IF pending THEN <<SplitParagraph(st.current_paragraph)>> ELSE <<>>)
                    \o (IF st.in_bullet_list THEN <<UlClose>> ELSE <<>>),
              current_paragraph |-> <<>>,
              in_bullet_list |-> FALSE,
              in_numbered_list |-> FALSE]
        ELSE IF StartsWith(line, H4Open)
        THEN [st EXCEPT
                !.result =
                    st.result
                      \o (IF pending THEN <<PlainParagraph(st.current_paragraph)>> ELSE <<>>)
                      \o <<line>>,
                !.current_paragraph = <<>>]
        ELSE IF MatchTrendItem(line).ok
        THEN LET m == MatchTrendItem(line)
             IN  [st EXCEPT
                    !.result =
                        st.result
                          \o (IF pending THEN <<PlainParagraph(st.current_paragraph)>>
                              ELSE <<>>)
                          \o <<TrendItemOpen,
                               TrendNumberOpen \o m.number \o <<".">> \o SpanClose,
                               TrendTitleOpen \o m.title \o <<":">> \o StrongClose
                                 \o <<" ">> \o m.content,
                               DivClose>>,
                    !.current_paragraph = <<>>]
        ELSE IF IsNumberedLine(line)
        THEN LET d == SkipDigits(line, 1)
                 content == SubSeq(line, SkipSpace(line, d + 1), Len(line))
             IN  [st EXCEPT
                    !.result =
                        st.result
                          \o (IF st.in_bullet_list THEN <<UlClose>> ELSE <<>>)
                          \o <<NumberedOpen \o SplitChar(line, ".")[1] \o <<".">>
                                 \o StrongClose \o <<" ">> \o content \o PClose>>,
                    !.in_bullet_list = FALSE]
        ELSE IF IsBulletLine(line)
        THEN [st EXCEPT
                !.result =
                    st.result
                      \o (IF st.in_bullet_list THEN <<>> ELSE <<UlOpen>>)
                      \o <<LiOpen \o Strip(PySliceFrom(line, 1)) \o LiClose>>,
                !.in_bullet_list = TRUE]
        ELSE [st EXCEPT !.current_paragraph = Append(st.current_paragraph, line)]

RECURSIVE HtmlLoop(_, _, _)
HtmlLoop(st, lines, i) ==
    IF i > Len(lines) THEN st ELSE HtmlLoop(HtmlStep(st, lines[i]), lines, i + 1)

\* What is appended after the loop: the last paragraph and the close of an
\* open list.
HtmlFinishListOpen(st) ==
    st.result
      \o (IF st.current_paragraph # <<>> THEN <<SplitParagraph(st.current_paragraph)>>
          ELSE <<>>)
HtmlFinish(st) ==
    st.result
      \o (IF st.current_paragraph # <<>> THEN <<SplitParagraph(st.current_paragraph)>>
          ELSE <<>>)
      \o (IF st.in_bullet_list THEN <<UlClose>> ELSE <<>>)

\* _markdown_to_html(markdown_text): the lines of the result (the code returns
\* them joined by newlines).
MarkdownToHtmlLines(markdown_text) ==
    IF markdown_text = <<>> THEN <<>>
    ELSE HtmlFinish(HtmlLoop(FormatterStart, SplitChar(InlinePass(markdown_text), "\n"), 1))

MarkdownToHtml(markdown_text) == Join(MarkdownToHtmlLines(markdown_text), NL)

-----------------------------------------------------------------------------
(* SpecHtml: _markdown_to_html applied to every prose text *)

MaxHtmlLines == 3

\* A run of k letters.
Xs(k) == [i \in 1..k |-> "x"]

LineH3 == <<"#", "#", "#", " ", "h">>
LineTrendItem == <<"1", ".", " ", "*", "*", "t", "*", "*", ":", " ", "c">>
LineNumbered == <<"2", ".", " ", "n">>
LineBullet == <<"-", " ", "b">>
LineShort == <<"y">>

\* Lines of 101 and of 100 characters with one boundary inside, of 150 with
\* two, of 101 with the boundary last, and two lines that join to 102.
LineLong101 == Xs(50) \o <<"U3002">> \o Xs(50)
LineLong100 == Xs(49) \o <<"U3002">> \o Xs(50)
LineLong150 == Xs(49) \o <<"U3002">> \o Xs(49) \o <<"UFF0C">> \o Xs(50)
LineLongEnd == Xs(100) \o <<"U3002">>
LineHalfA == Xs(50)
LineHalfB == <<"UFF1F">> \o Xs(50)

HtmlLinePool ==
    {LineBlank, LineH3, LineTrendItem, LineNumbered, LineBullet, LineShort, LineLong101}

\* One paragraph and what flushes it.
ParagraphDocs ==
    {para \o after :
        para \in {<<LineLong101>>, <<LineLong100>>, <<LineLong150>>, <<LineLongEnd>>,
                  <<LineHalfA, LineHalfB>>, <<LineShort, LineLong100>>},
        after \in {<<>>, <<LineBlank>>, <<LineBlank, LineShort>>, <<LineH3>>,
                   <<LineTrendItem>>, <<LineNumbered>>, <<LineBullet>>}}

InitHtml ==
    /\ SplitIdle
    /\ fn = "_markdown_to_html"
    /\ \E lines \in SeqsUpTo(HtmlLinePool, MaxHtmlLines) \cup ParagraphDocs :
          arg = Join(lines, NL)
    /\ ret = Idle

CallMarkdownToHtml ==
    /\ fn = "_markdown_to_html"
    /\ ret = Idle
    /\ ret' = [done |-> TRUE, value |-> MarkdownToHtml(arg)]
    /\ UNCHANGED <<fn, arg>>
    /\ UNCHANGED <<splitVars, frames, db>>

NextHtml == CallMarkdownToHtml

SpecHtml == InitHtml /\ [][NextHtml]_vars

-----------------------------------------------------------------------------
(* The reference resolution of export_pdf *)

\* slug_to_cover.get(slug, "") and slug_to_url.get(slug, ""): articles is the
\* function from the slugs of the articles of the database to their records.
CoverLocal(articles, slug) ==
    IF slug \in DOMAIN articles THEN articles[slug].cover_image ELSE Str(<<>>)
UrlOfSlug(articles, slug) ==
    IF slug \in DOMAIN articles THEN articles[slug].url.v ELSE <<>>

\* The cover image the loop assigns: the path of the cached image under the
\* images directory of the issue when the article has one and the file
\* exists, None otherwise.  What the block held is not read.
ResolvedCover(articles, source_exists, images_dir, slug) ==
    IF Truthy(CoverLocal(articles, slug)) /\ source_exists
    THEN Some(images_dir \o <<"/">> \o CoverLocal(articles, slug).v)
    ELSE None

\* The body of the loop over sections["article_blocks"], for one block.
ResolveBlock(articles, source_exists, images_dir, block) ==
    [block EXCEPT
        !.cover_image = ResolvedCover(articles, source_exists, images_dir, block.slug),
        !.url = IF block.url = <<>> THEN UrlOfSlug(articles, block.slug) ELSE block.url,
        !.content = IF block.content # <<>> THEN MarkdownToHtml(block.content)
                    ELSE block.content]

ResolveBlocks(articles, source_exists, images_dir, blocks) ==
    [i \in 1..Len(blocks) |-> ResolveBlock(articles, source_exists, images_dir, blocks[i])]

-----------------------------------------------------------------------------
(* SpecExport: the article section of an issue, parsed and resolved *)

ImagesDirName == <<"I">>

\* Section texts of one block: with or without a leading image line, a slug
\* (hidden or as a reference), an Original-URL line and a body line.
ExportTexts ==
    {<<LineHeadA>> \o image \o slug \o url \o body :
        image \in {<<>>, <<LineImage>>},
        slug \in {<<>>, <<LineSlug>>, <<LineRef>>},
        url \in {<<>>, <<LineUrlEn>>},
        body \in {<<>>, <<LineBody>>, <<LineTrendItem>>}}

InitExport ==
    /\ SplitIdle
    /\ fn = "export_pdf"
    /\ \E lines \in ExportTexts, articles \in ArticleSets, source_exists \in BOOLEAN :
          arg = [text |-> Join(lines, NL), articles |-> articles,
                 source_exists |-> source_exists]
    /\ ret = Idle

\* The article section parsed, then the loop over its blocks.
CallExportResolve ==
    /\ fn = "export_pdf"
    /\ ret = Idle
    /\ LET parsed == ExportParseArticleBlocks(arg.text).value
       IN  ret' = [done |-> TRUE, parsed |-> parsed,
                   value |-> ResolveBlocks(arg.articles, arg.source_exists,
                                           ImagesDirName, parsed)]
    /\ UNCHANGED <<fn, arg>>
    /\ UNCHANGED <<splitVars, frames, db>>

NextExport == CallExportResolve

SpecExport == InitExport /\ [][NextExport]_vars

-----------------------------------------------------------------------------
(* Calls of _parse_issue_markdown in progress at the same time *)

\* The frame of one call: its argument and its locals. Every name the function
\* assigns is a local of the call; it reads no global but the functions it
\* calls.
NewFrame(text) ==
    [markdown |-> text, pc |-> "loop", n |-> 0, current_section |-> None,
     current_content |-> <<>>, sections |-> InitialSections]

FrameLines(f) == SplitChar(f.markdown, "\n")

\* One step of the call whose frame is f: a heading line, any other line, or
\* the return after the loop (SplitHeadingLine, SplitContentLine, SplitReturn
\* on the frame).
FrameStep(cp, f) ==
    LET flushed == Flush(cp, f.sections, f.current_section, f.current_content)
    IN  IF f.n = Len(FrameLines(f))
        THEN IF flushed.raised # None THEN [f EXCEPT !.pc = "raised"]
             ELSE [f EXCEPT !.pc = "done", !.sections = flushed.sections]
        ELSE IF StartsWith(FrameLines(f)[f.n + 1], H2)
        THEN IF flushed.raised # None THEN [f EXCEPT !.pc = "raised"]
             ELSE [f EXCEPT !.sections = flushed.sections,
                            !.current_section = Some(SectionKey(cp, FrameLines(f)[f.n + 1])),
                            !.current_content = <<>>,
                            !.n = f.n + 1]
        ELSE [f EXCEPT !.current_content = Append(f.current_content, FrameLines(f)[f.n + 1]),
                       !.n = f.n + 1]

\* The call run alone, from its first step to its return.
RECURSIVE FrameRun(_, _)
FrameRun(cp, f) == IF f.pc # "loop" THEN f ELSE FrameRun(cp, FrameStep(cp, f))
ParseIssueMarkdown(cp, text) == FrameRun(cp, NewFrame(text))

\* The frame that holds the current_content list the call t appends to: its
\* own.
SharedContentOwner(t) == 1
ContentOwner(t) == t

\* The texts of the concurrent calls.
ConcurrentDocs ==
    {<<H2 \o NameTrendsZh, LineBody>>,
     <<H2 \o NameTrendsZh, LineBodyY, LineBody>>,
     <<LineBody, H2 \o NameTrendsZh, LineBodyY>>,
     <<H2 \o NameArticlesZh, LineHeadA, LineBody>>,
     <<H2 \o NameTrendsZh, LineBody, H2 \o NameTrendsZh, LineBodyY>>,
     <<H2 \o NameBriefsZh, LineBrief>>}

\* Two calls of one copy of the splitter, both entered and neither yet at its
\* first line.
InitConcurrent ==
    /\ db = <<>>
    /\ copy \in Copies
    /\ markdown = <<>>
    /\ pc = "idle"
    /\ n = 0
    /\ current_section = None
    /\ current_content = <<>>
    /\ sections = <<>>
    /\ fn = "_parse_issue_markdown"
    /\ \E a \in ConcurrentDocs, b \in ConcurrentDocs :
          /\ arg = <<Join(a, NL), Join(b, NL)>>
          /\ frames = <<NewFrame(Join(a, NL)), NewFrame(Join(b, NL))>>
    /\ ret = Idle

\* The call t takes its next step while the other call is suspended.
StepCall(t) ==
    /\ frames[t].pc = "loop"
    /\ \E o \in {ContentOwner(t)} :
       \E seen \in {[frames[t] EXCEPT !.current_content = frames[o].current_content]} :
       \E after \in {FrameStep(copy, seen)} :
          frames' = [[frames EXCEPT ![o].current_content = after.current_content]
                        EXCEPT ![t] = after]
    /\ UNCHANGED <<splitVars, callVars, db>>

StepFirstCall == StepCall(1)
StepSecondCall == StepCall(2)

NextConcurrent == StepFirstCall \/ StepSecondCall

SpecConcurrent == InitConcurrent /\ [][NextConcurrent]_vars

-----------------------------------------------------------------------------
(* The retry decorator (autopaper/utils/retry.py and its copy in the
   extract-metadata plugin, which differ in layout only) *)

MaxAttempts == 3

\* What one invocation of the wrapped function does: it returns, or raises an
\* exception of one of two classes.
Outcomes == {"return", "ValueError", "KeyError"}
ExceptionClasses == {"ValueError", "KeyError"}

\* The value the k-th invocation returns, the exception it raises.
ResultOf(k) == [type |-> "result", of |-> k]
ExceptionOf(class, k) == [type |-> "exception", class |-> class, of |-> k]

\* Defaults of the decorator's parameters (whole seconds).
initial_delay == 1
backoff_factor == 2

\* isinstance(e, exceptions)
IsRetryable(e, exceptions) == e.class \in exceptions

\* attempt == max_attempts - 1
GivesUpAtFirst(attempt, max_attempts) == attempt = 0
IsLastAttempt(attempt, max_attempts) == attempt = max_attempts - 1

\* The frame of one call of wrapper: the decorator's parameters, the wrapped
\* function (its outcome at each invocation), the locals attempt, delay and
\* last_exception, and what the call has done so far.
WrapperFrame(max_attempts, exceptions, on_retry, func) ==
    [pc |-> "loop", max_attempts |-> max_attempts, exceptions |-> exceptions,
     on_retry |-> on_retry, func |-> func,
     attempt |-> 0, delay |-> initial_delay, last_exception |-> None,
     invocations |-> 0, callbacks |-> <<>>, slept |-> <<>>,
     returned |-> None, raised |-> None]

\* func(*args, **kwargs) at the next invocation.
OutcomeOfNext(f) == f.func[f.invocations + 1]

\* One call of a function wrapped with retry(max_attempts, exceptions=...,
\* on_retry=...), just entered. on_retry is absent, returns, or raises.
InitRetry ==
    /\ db = <<>>
    /\ copy = "export"
    /\ markdown = <<>>
    /\ pc = "idle"
    /\ n = 0
    /\ current_section = None
    /\ current_content = <<>>
    /\ sections = <<>>
    /\ fn = "wrapper"
    /\ arg = <<>>
    /\ ret = Idle
    /\ \E max_attempts \in 0..MaxAttempts,
          exceptions \in {ExceptionClasses, {"ValueError"}},
          on_retry \in {"none", "returns", "raises"},
          func \in [1..MaxAttempts -> Outcomes] :
          frames = <<WrapperFrame(max_attempts, exceptions, on_retry, func)>>

InLoop(f) == f.pc = "loop" /\ f.attempt < f.max_attempts

\* try: return func(*args, **kwargs)
RetryReturn ==
    LET f == frames[1]
    IN  /\ InLoop(f)
        /\ OutcomeOfNext(f) = "return"
        /\ frames' = <<[f EXCEPT !.invocations = f.invocations + 1,
                                 !.returned = Some(ResultOf(f.invocations + 1)),
                                 !.pc = "returned"]>>
        /\ UNCHANGED <<splitVars, callVars, db>>

\* func raises an exception that "except exceptions" does not catch: it leaves
\* the wrapper.
RetryPropagate ==
    LET f == frames[1]
        e == ExceptionOf(OutcomeOfNext(f), f.invocations + 1)
    IN  /\ InLoop(f)
        /\ OutcomeOfNext(f) \in ExceptionClasses
        /\ ~IsRetryable(e, f.exceptions)
        /\ frames' = <<[f EXCEPT !.invocations = f.invocations + 1,
                                 !.raised = Some(e),
                                 !.pc = "raised"]>>
        /\ UNCHANGED <<splitVars, callVars, db>>

\* func raises a caught exception at the last attempt: log and re-raise.
RetryGiveUp ==
    LET f == frames[1]
        e == ExceptionOf(OutcomeOfNext(f), f.invocations + 1)
    IN  /\ InLoop(f)
        /\ OutcomeOfNext(f) \in ExceptionClasses
        /\ IsRetryable(e, f.exceptions)
        /\ IsLastAttempt(f.attempt, f.max_attempts)
        /\ frames' = <<[f EXCEPT !.invocations = f.invocations + 1,
                                 !.last_exception = Some(e),
                                 !.raised = Some(e),
                                 !.pc = "raised"]>>
        /\ UNCHANGED <<splitVars, callVars, db>>

\* func raises a caught exception at an earlier attempt: log, call on_retry
\* (an exception of the callback is logged and dropped), sleep, lengthen the
\* delay, and go to the next attempt.
RetryBackoff ==
    LET f == frames[1]
        e == ExceptionOf(OutcomeOfNext(f), f.invocations + 1)
    IN  /\ InLoop(f)
        /\ OutcomeOfNext(f) \in ExceptionClasses
        /\ IsRetryable(e, f.exceptions)
        /\ ~IsLastAttempt(f.attempt, f.max_attempts)
        /\ frames' = <<[f EXCEPT !.invocations = f.invocations + 1,
                                 !.last_exception = Some(e),
                                 !.callbacks = IF f.on_retry = "none" THEN f.callbacks
                                               ELSE Append(f.callbacks, <<f.attempt + 1, e>>),
                                 !.slept = Append(f.slept, f.delay),
                                 !.delay = f.delay * backoff_factor,
                                 !.attempt = f.attempt + 1]>>
        /\ UNCHANGED <<splitVars, callVars, db>>

\* The for loop ends without a return or a raise: raise last_exception if there
\* is one, else fall off the end of wrapper (None is returned).
RetryLoopEnd ==
    LET f == frames[1]
    IN  /\ f.pc = "loop"
        /\ f.attempt >= f.max_attempts
        /\ frames' = <<IF f.last_exception # None
                       THEN [f EXCEPT !.raised = f.last_exception, !.pc = "raised"]
                       ELSE [f EXCEPT !.returned = Some(PyNone), !.pc = "returned"]>>
        /\ UNCHANGED <<splitVars, callVars, db>>

NextRetry == RetryReturn \/ RetryPropagate \/ RetryGiveUp \/ RetryBackoff \/ RetryLoopEnd

SpecRetry == InitRetry /\ [][NextRetry]_vars

-----------------------------------------------------------------------------
(* SpecVault: the issue content ObsidianPublisher.publish_issue writes *)

\* clean_content = re.sub(r'<!-- SLUG:[^ ]+ -->\n?', '', issue_content): the
\* text written to the issue file after the front matter (which is made of
\* the issue slug, the date and the number of articles, and holds no comment).
CleanContent(issue_content) == ReSub("slug_comment", issue_content)

MaxVaultLines == 3

\* A hidden slug comment without the space after the colon, one with a longer
\* value, and one at the end of a body line.
LineSlugTight == SlugOpen \o <<"s", " ">> \o CommentClose
LineSlugLong == SlugOpen \o <<" ", "a", "-", "b", " ">> \o CommentClose
LineSlugAfterText == <<"x", " ">> \o LineSlugTight
VaultLinePool == {LineHeadA, LineBody, LineBlank, LineSlug, LineSlugTight, LineSlugLong,
                  LineSlugAfterText}

InitVault ==
    /\ SplitIdle
    /\ fn = "publish_issue"
    /\ \E lines \in SeqsUpTo(VaultLinePool, MaxVaultLines) : arg = Join(lines, NL)
    /\ ret = Idle

CallPublishIssue ==
    /\ fn = "publish_issue"
    /\ ret = Idle
    /\ ret' = [done |-> TRUE, value |-> CleanContent(arg)]
    /\ UNCHANGED <<fn, arg>>
    /\ UNCHANGED <<splitVars, frames, db>>

NextVault == CallPublishIssue

SpecVault == InitVault /\ [][NextVault]_vars

-----------------------------------------------------------------------------
(* SpecContext: one with-block of RetryContext (autopaper/utils/retry.py) *)

\* The most failures the body of one with-block records.
MaxRecorded == 4

\* RetryContext.__init__, then __enter__ (which returns self): the block's
\* body is running. raises counts the exceptions raised so far, leaving is the
\* exception that left the body, reached the one that reached the caller of
\* the with-block.
ContextFrame(max_attempts, exceptions) ==
    [pc |-> "body", max_attempts |-> max_attempts, exceptions |-> exceptions,
     attempt |-> 0, last_exception |-> None, delay |-> initial_delay,
     slept |-> <<>>, raises |-> 0, leaving |-> None, reached |-> None]

\* should_retry()
ShouldRetry(f) == f.attempt < f.max_attempts

InitContext ==
    /\ db = <<>>
    /\ copy = "export"
    /\ markdown = <<>>
    /\ pc = "idle"
    /\ n = 0
    /\ current_section = None
    /\ current_content = <<>>
    /\ sections = <<>>
    /\ fn = "RetryContext"
    /\ arg = <<>>
    /\ ret = Idle
    /\ \E max_attempts \in 0..MaxAttempts,
          exceptions \in {ExceptionClasses, {"ValueError"}} :
          frames = <<ContextFrame(max_attempts, exceptions)>>

\* The body calls record_failure(e) with an exception of a retryable type:
\* the failure is recorded, and the call sleeps and lengthens the delay when
\* attempts are left.
ContextRecordFailure(class) ==
    LET f == frames[1]
        e == ExceptionOf(class, f.raises + 1)
    IN  /\ fn = "RetryContext"
        /\ f.pc = "body"
        /\ f.attempt < MaxRecorded
        /\ IsRetryable(e, f.exceptions)
        /\ frames' = <<[f EXCEPT !.raises = f.raises + 1,
                                 !.last_exception = Some(e),
                                 !.attempt = f.attempt + 1,
                                 !.slept = IF f.attempt + 1 < f.max_attempts
                                           THEN Append(f.slept, f.delay) ELSE f.slept,
                                 !.delay = IF f.attempt + 1 < f.max_attempts
                                           THEN f.delay * backoff_factor ELSE f.delay]>>
        /\ UNCHANGED <<splitVars, callVars, db>>

\* The body calls record_failure(e) with an exception that is not of a
\* retryable type: record_failure raises it, and it leaves the body.
ContextRecordReraises(class) ==
    LET f == frames[1]
        e == ExceptionOf(class, f.raises + 1)
    IN  /\ fn = "RetryContext"
        /\ f.pc = "body"
        /\ ~IsRetryable(e, f.exceptions)
        /\ frames' = <<[f EXCEPT !.raises = f.raises + 1,
                                 !.leaving = Some(e),
                                 !.pc = "exit"]>>
        /\ UNCHANGED <<splitVars, callVars, db>>

\* A statement of the body outside any try raises: the exception leaves the
\* body.
ContextBodyRaises(class) ==
    LET f == frames[1]
        e == ExceptionOf(class, f.raises + 1)
    IN  /\ fn = "RetryContext"
        /\ f.pc = "body"
        /\ frames' = <<[f EXCEPT !.raises = f.raises + 1,
                                 !.leaving = Some(e),
                                 !.pc = "exit"]>>
        /\ UNCHANGED <<splitVars, callVars, db>>

\* The body ends without an exception.
ContextBodyEnds ==
    LET f == frames[1]
    IN  /\ fn = "RetryContext"
        /\ f.pc = "body"
        /\ frames' = <<[f EXCEPT !.pc = "exit"]>>
        /\ UNCHANGED <<splitVars, callVars, db>>

\* __exit__ returns False (the exception goes on to the caller)
ExitReturnsFalse(f) == f.leaving # None /\ f.attempt >= f.max_attempts

\* __exit__(exc_type, exc_val, exc_tb): a true return value makes the with
\* statement drop the exception of its body.
ContextExit ==
    LET f == frames[1]
    IN  /\ fn = "RetryContext"
        /\ f.pc = "exit"
        /\ frames' = <<[f EXCEPT !.reached = IF ExitReturnsFalse(f) THEN f.leaving ELSE None,
                                 !.pc = "exited"]>>
        /\ UNCHANGED <<splitVars, callVars, db>>

ContextRecordAny == \E class \in ExceptionClasses : ContextRecordFailure(class)
ContextReraiseAny == \E class \in ExceptionClasses : ContextRecordReraises(class)
ContextRaiseAny == \E class \in ExceptionClasses : ContextBodyRaises(class)

NextContext ==
    \/ ContextRecordAny
    \/ ContextReraiseAny
    \/ ContextRaiseAny
    \/ ContextBodyEnds
    \/ ContextExit

SpecContext == InitContext /\ [][NextContext]_vars

-----------------------------------------------------------------------------
(* SpecAdd: the add command (autopaper/commands/add.py) over the articles
   table, with generate_unique_slug (autopaper/utils/slug.py) *)

\* The most add commands of one run.
MaxAdds == 4

SlugLetters ==
    {"a", "b", "c", "d", "e", "f", "g", "h", "i", "j", "k", "l", "m", "n", "o", "p", "q", "r",
     "s", "t", "u", "v", "w", "x", "y", "z"}

\* slugify(text) of the python-slugify package, for a text of ASCII letters,
\* digits, spaces and punctuation: lower case, every run of characters that
\* are neither letters nor digits becomes one "-", and the "-" at both ends
\* are dropped.
Slugify(text) ==
    LET low == Lower(text)
        dashed == [i \in 1..Len(low) |->
                       IF low[i] \in SlugLetters \cup Digits THEN low[i] ELSE "-"]
        keep == {i \in 1..Len(dashed) : dashed[i] # "-" \/ (i > 1 /\ dashed[i - 1] # "-")}
    IN  StripChars([k \in 1..Cardinality(keep) |-> dashed[Nth(keep, k)]], {"-"})

\* urlparse(url).path for a URL of a scheme, "://", a host and a path without
\* parameters, query or fragment.
UrlPath(url) ==
    LET s == PyFind(url, <<":", "/", "/">>, 0)
        rest == IF s < 0 THEN url ELSE PySliceFrom(url, s + 3)
        slash == PyFind(rest, <<"/">>, 0)
    IN  IF slash < 0 THEN <<>> ELSE PySliceFrom(rest, slash)

\* path.split("/")[-1]
LastPart(path) == SplitChar(path, "/")[Len(SplitChar(path, "/"))]

\* f"{counter}"
DecimalDigit(d) ==
    CASE d = 0 -> "0" [] d = 1 -> "1" [] d = 2 -> "2" [] d = 3 -> "3" [] d = 4 -> "4"
      [] d = 5 -> "5" [] d = 6 -> "6" [] d = 7 -> "7" [] d = 8 -> "8" [] d = 9 -> "9"
RECURSIVE Decimal(_)
Decimal(k) == IF k < 10 THEN <<DecimalDigit(k)>> ELSE Decimal(k \div 10) \o <<DecimalDigit(k % 10)>>

max_length == 80
MaxCounter == 1000

\* base_slug of generate_unique_slug: from the title, from the URL when that
\* is empty or shorter than 5, "untitled" when both are empty.
BaseSlug(title, url) ==
    LET from_title == Slugify(PySlice(title, 0, max_length))
        from_path == Slugify(LastPart(UrlPath(url)))
        from_url == IF from_path # <<>> THEN from_path ELSE Slugify(url)
        base == IF from_title = <<>> \/ Len(from_title) < 5 THEN from_url ELSE from_title
    IN  IF base = <<>> THEN <<"u", "n", "t", "i", "t", "l", "e", "d">> ELSE base

\* db.get_article_by_url(url), db.get_article_by_slug(slug): the places of the
\* rows found.
RowsByUrl(rows, url) == {i \in 1..Len(rows) : rows[i].url = url}
RowsBySlug(rows, slug) == {i \in 1..Len(rows) : rows[i].slug = slug}

\* The while loop of generate_unique_slug: [raised |-> None, value |-> slug],
\* or the ValueError after 1000 attempts.
RECURSIVE UniqueSlugLoop(_, _, _, _)
UniqueSlugLoop(base_slug, slug, counter, rows) ==
    IF RowsBySlug(rows, slug) = {} THEN [raised |-> None, value |-> slug]
    ELSE IF counter + 1 > MaxCounter THEN [raised |-> Some("ValueError"), value |-> <<>>]
    ELSE UniqueSlugLoop(base_slug, base_slug \o <<"-">> \o Decimal(counter), counter + 1, rows)

\* generate_unique_slug(title, url, db)
GenerateUniqueSlug(title, url, rows) ==
    UniqueSlugLoop(BaseSlug(title, url), BaseSlug(title, url), 1, rows)

\* The row of an article: of its columns, the id, the url, the title and the
\* slug.
ArticleRow(id, url, title, slug) == [id |-> id, url |-> url, title |-> title, slug |-> slug]

\* db.update_article(article): UPDATE ... SET title, ..., slug ... WHERE id
UpdateArticle(rows, article) ==
    [i \in 1..Len(rows) |-> IF rows[i].id = article.id THEN article ELSE rows[i]]

\* db.add_article(article): the new row gets the next id.
AddArticle(rows, article) == Append(rows, [article EXCEPT !.id = Len(rows) + 1])

UrlPost == <<"h", "t", "t", "p", ":", "/", "/", "e", "/", "a", "-", "p", "o", "s", "t">>
UrlRoot == <<"h", "t", "t", "p", ":", "/", "/", "e", "/">>
TitleHello == <<"H", "e", "l", "l", "o", " ", "W", "o", "r", "l", "d">>
TitleHelloAgain == <<"h", "e", "l", "l", "o", ",", " ", "w", "o", "r", "l", "d", "!">>
TitleShort == <<"H", "i">>
AddUrls == {UrlPost, UrlRoot}
AddTitles == {TitleHello, TitleHelloAgain, TitleShort}

\* No command has run, the table is empty.
InitAdd ==
    /\ copy = "export"
    /\ markdown = <<>>
    /\ pc = "idle"
    /\ n = 0
    /\ current_section = None
    /\ current_content = <<>>
    /\ sections = <<>>
    /\ frames = <<>>
    /\ fn = "add"
    /\ arg = <<>>
    /\ ret = [done |-> FALSE, commands |-> 0]
    /\ db = <<>>

AddMayRun == fn = "add" /\ ret.commands < MaxAdds

\* add(url) without --force on a stored URL: "Article already exists", exit 0.
AddAlreadyExists(url) ==
    /\ AddMayRun
    /\ RowsByUrl(db, url) # {}
    /\ arg' = [url |-> url, force |-> FALSE]
    /\ ret' = [done |-> TRUE, commands |-> ret.commands + 1, exit |-> 0, stored |-> FALSE]
    /\ UNCHANGED <<fn, db>>
    /\ UNCHANGED <<splitVars, frames>>

\* The scraper returns nothing: "Failed to scrape article", exit 1.
AddScrapeFails(url, force) ==
    /\ AddMayRun
    /\ RowsByUrl(db, url) = {} \/ force
    /\ arg' = [url |-> url, force |-> force]
    /\ ret' = [done |-> TRUE, commands |-> ret.commands + 1, exit |-> 1, stored |-> FALSE]
    /\ UNCHANGED <<fn, db>>
    /\ UNCHANGED <<splitVars, frames>>

\* add(url, force) when the article is scraped and its metadata (from the
\* model or from the fallback) has the given title: the slug is generated
\* against the table as it is, then the row is updated (a stored URL with
\* --force) or added.
AddStores(url, force, title) ==
    /\ AddMayRun
    /\ RowsByUrl(db, url) = {} \/ force
    /\ arg' = [url |-> url, force |-> force, title |-> title]
    /\ \E slug \in {GenerateUniqueSlug(title, url, db)} :
          IF slug.raised # None
          THEN /\ ret' = [done |-> TRUE, commands |-> ret.commands + 1,
                          exit |-> slug.raised[1], stored |-> FALSE]
               /\ db' = db
          ELSE /\ ret' = [done |-> TRUE, commands |-> ret.commands + 1, exit |-> 0,
                          stored |-> TRUE]
               /\ db' = IF RowsByUrl(db, url) # {}
                        THEN UpdateArticle(db, ArticleRow(db[Min(RowsByUrl(db, url))].id,
                                                          url, title, slug.value))
                        ELSE AddArticle(db, ArticleRow(0, url, title, slug.value))
    /\ UNCHANGED fn
    /\ UNCHANGED <<splitVars, frames>>

AddExisting == \E url \in AddUrls : AddAlreadyExists(url)
AddFailing == \E url \in AddUrls, force \in BOOLEAN : AddScrapeFails(url, force)
AddStoring == \E url \in AddUrls, force \in BOOLEAN, title \in AddTitles : AddStores(url, force, title)

NextAdd == AddExisting \/ AddFailing \/ AddStoring

SpecAdd == InitAdd /\ [][NextAdd]_vars

-----------------------------------------------------------------------------
(* Claims about _parse_article_blocks, stated on the input text (arg) and   *)
(* the returned list (ret.value) without use of the parser's definitions.  *)


BlocksReturned == fn = "_parse_article_blocks" /\ ret.done

\* The lines of the section text, and the places of its sub-heading lines.
ArgLines == SplitChar(arg, "\n")
SubHeadingAt == {i \in 1..Len(ArgLines) : StartsWith(ArgLines[i], <<"#", "#", "#", " ">>)}

\* The places of the lines of the k-th block: after its sub-heading, before
\* the next one.
BlockLinesAt(k) ==
    LET from == Nth(SubHeadingAt, k)
        to == IF k = Cardinality(SubHeadingAt) THEN Len(ArgLines) + 1
              ELSE Nth(SubHeadingAt, k + 1)
    IN  {i \in 1..Len(ArgLines) : from < i /\ i < to}

HasTagsLabel(line) == StartsWith(line, TagsZh) \/ StartsWith(line, TagsEn)
HasUrlLabel(line) == StartsWith(line, UrlZh) \/ StartsWith(line, UrlEn)
HasSlugOpener(line) == StartsWith(line, SlugOpen)
IsAnnotation(line) == HasTagsLabel(line) \/ HasUrlLabel(line) \/ HasSlugOpener(line)

\* The comma-separated pieces after the label of a Tags line, each trimmed.
LabelLen(line) == IF StartsWith(line, TagsZh) THEN Len(TagsZh) ELSE Len(TagsEn)
Pieces(line) ==
    LET rest == Strip(SubSeq(line, LabelLen(line) + 1, Len(line)))
        raw == SplitChar(rest, ",")
    IN  [j \in 1..Len(raw) |-> Strip(raw[j])]

\* C1: the parser returns exactly one block per line that starts with "### ",
\* in the order of those lines, and the title of the i-th block is the trimmed
\* text after the marker of the i-th such line; with no such line the list is
\* empty whatever the other lines are.
C1_OneBlockPerSubHeading ==
    BlocksReturned =>
        /\ ret.raised = None
        /\ Len(ret.value) = Cardinality(SubHeadingAt)
        /\ \A k \in 1..Len(ret.value) :
              LET line == ArgLines[Nth(SubHeadingAt, k)]
              IN  ret.value[k].title = Strip(SubSeq(line, 5, Len(line)))

\* C1 witness: two blocks returned from a text with a line between the two
\* sub-headings, and their titles differ (the order shows).
C1_Witness ==
    /\ BlocksReturned
    /\ Len(ret.value) = 2
    /\ Len(ArgLines) = 3
    /\ 2 \notin SubHeadingAt
    /\ ret.value[1].title = <<"B">>
    /\ ret.value[2].title = <<"A">>

\* C1 witness of the empty case: lines but no sub-heading, the list is empty.
C1_WitnessEmpty ==
    BlocksReturned /\ Len(ArgLines) = 3 /\ SubHeadingAt = {} /\ ret.value = <<>>

\* C2: no line of a block's content is a Tags line, an Original-URL line or a
\* hidden-slug comment line (a line that starts with one of the labels or with
\* the opener of the comment, which is how the parser tells them).
C2_ContentHasNoAnnotationLine ==
    BlocksReturned =>
        \A k \in 1..Len(ret.value) :
            LET body == SplitChar(ret.value[k].content, "\n")
            IN  \A j \in 1..Len(body) : ~IsAnnotation(body[j])

\* C3: for every Tags line inside a block, the block's tags are the
\* pieces of that line, trimmed, in order.
C3_TagsOfEveryTagsLine ==
    BlocksReturned =>
        \A k \in 1..Len(ret.value) :
            \A i \in BlockLinesAt(k) :
                HasTagsLabel(ArgLines[i]) => ret.value[k].tags = Pieces(ArgLines[i])

\* C3, amended: the block's tags are the pieces, trimmed and in order, of the
\* last Tags line (either label) inside the block.
C3_TagsOfLastTagsLine ==
    BlocksReturned =>
        \A k \in 1..Len(ret.value) :
            LET at == {i \in BlockLinesAt(k) : HasTagsLabel(ArgLines[i])}
            IN  at # {} => ret.value[k].tags = Pieces(ArgLines[Max(at)])

\* C3 witness: a block with one Tags line of two pieces written with spaces.
C3_Witness ==
    /\ BlocksReturned
    /\ Len(ret.value) = 1
    /\ {i \in BlockLinesAt(1) : HasTagsLabel(ArgLines[i])} # {}
    /\ ret.value[1].tags = << <<"a">>, <<"b">> >>


-----------------------------------------------------------------------------
(* Claims about _parse_news_briefs *)

BriefsReturned == fn = "_parse_news_briefs" /\ ret.done

\* s with its leading characters of the set removed.
LStripChars(s, chars) ==
    LET keep == {i \in 1..Len(s) : s[i] \notin chars}
    IN  IF keep = {} THEN <<>> ELSE SubSeq(s, Min(keep), Len(s))

\* A bullet line of the shape "- **Title**<separators>rest": the places (from
\* 1, in the trimmed line) where a bold marker begins after the opening one.
ClosersOf(raw) ==
    LET l == Strip(raw)
    IN  {i \in 5..(Len(l) - 1) : l[i] = "*" /\ l[i + 1] = "*"}
IsShapedBullet(raw) ==
    StartsWith(Strip(raw), <<"-", " ", "*", "*">>) /\ ClosersOf(raw) # {}

\* The brief the claim gives such a line.
BriefOf(raw) ==
    LET l == Strip(raw)
        close == Min(ClosersOf(raw))
    IN  [title |-> SubSeq(l, 5, close - 1),
         summary |-> Strip(LStripChars(SubSeq(l, close + 2, Len(l)), {":", " "})),
         url |-> <<>>]

\* C4: for every bullet line of the shape "- **Title**<separators>rest" the
\* brief has the text between the opening bold marker and the first following
\* one as title, the text after that marker with only the leading colon and
\* space separators (and the surrounding whitespace) removed as summary, and
\* the empty url.  Stated on the texts whose lines all have the shape, where
\* the k-th brief is the brief of the k-th line.
C4_BriefOfShapedBullet ==
    BriefsReturned =>
        LET lines == SplitChar(arg, "\n")
        IN  (\A i \in 1..Len(lines) : IsShapedBullet(lines[i])) =>
                /\ Len(ret.value) = Len(lines)
                /\ \A i \in 1..Len(lines) : ret.value[i] = BriefOf(lines[i])

-----------------------------------------------------------------------------
(* Claims about _parse_issue_markdown *)

\* The heading lines among the first k lines of the document.
HeadingsUpTo(k) == {i \in 1..k : StartsWith(Lines[i], <<"#", "#", " ">>)}

\* The name a heading line carries.
NameOf(line) == Strip(SubSeq(line, 4, Len(line)))

\* The two names of each canonical section (the model writes the English one
\* as the composer's prompt does) and the key each stands for.
TableKey ==
    (NameIntroductionZh :> KeyIntroduction) @@ (HeadingIntroductionEn :> KeyIntroduction)
        @@ (NameTrendsZh :> KeyTrends) @@ (HeadingTrendsEn :> KeyTrends)
        @@ (NameArticlesZh :> KeyArticleBlocks) @@ (HeadingArticlesEn :> KeyArticleBlocks)
        @@ (NameBriefsZh :> KeyNewsBriefs) @@ (HeadingBriefsEn :> KeyNewsBriefs)
TableNames == DOMAIN TableKey

CanonicalKeys == {KeyIntroduction, KeyTrends, KeyArticleBlocks, KeyNewsBriefs}

\* lowercase_with_underscores(name)
LowerUnderscore(name) ==
    [i \in 1..Len(name) |-> IF name[i] = " " THEN "_" ELSE LowerChar(name[i])]

\* The returned dict is a Document: the four fields are there, the two prose
\* fields are strings and the two structured ones lists.
IsDocument(d) ==
    /\ CanonicalKeys \subseteq DOMAIN d
    /\ d[KeyIntroduction].type = "str"
    /\ d[KeyTrends].type = "str"
    /\ d[KeyArticleBlocks].type = "list"
    /\ d[KeyNewsBriefs].type = "list"

\* C8: the parser never raises: whatever the lines are, the splitter (and the
\* block parser and the brief parser it calls at each flush) is never in a
\* raised state, never reads past the last line, and what it returns is a
\* Document.
C8_NeverRaises ==
    /\ pc \in {"loop", "done"}
    /\ pc = "loop" => n <= Len(Lines)
    /\ pc = "done" => IsDocument(sections)

\* C8 witness: the splitter has returned from a document with an annotation
\* line outside any block, an unterminated link and a heading with an empty
\* name.
C8_Witness ==
    /\ pc = "done"
    /\ Lines = <<H2 \o NameArticlesZh, LineUrlOpen, H2>>

\* C9: in every copy, each of the two names of each canonical section resolves
\* to that section's key (right after the heading line, current_section is
\* that key), so that the text under a prose heading ends up in its field.
C9_BothNamesResolve ==
    /\ (pc = "loop" /\ n >= 1 /\ n \in HeadingsUpTo(n) /\ NameOf(Lines[n]) \in TableNames)
          => current_section = Some(TableKey[NameOf(Lines[n])])
    /\ (pc = "done" /\ Len(Lines) = 2 /\ HeadingsUpTo(2) = {1}
            /\ NameOf(Lines[1]) \in TableNames
            /\ TableKey[NameOf(Lines[1])] \in {KeyIntroduction, KeyTrends})
          => sections[TableKey[NameOf(Lines[1])]] = Str(Strip(Lines[2]))

\* The step from this state is a flush of a section opened by a heading.
AtFlush ==
    /\ pc = "loop"
    /\ HeadingsUpTo(n) # {}
    /\ (n = Len(Lines) \/ StartsWith(Lines[n + 1], <<"#", "#", " ">>))
CurrentName == NameOf(Lines[Max(HeadingsUpTo(n))])

\* C10: the flush of a section whose heading name is not one of the table names
\* stores its text under lowercase_with_underscores(name), which is none of
\* the four canonical keys, and leaves introduction, trends, article_blocks
\* and news_briefs as they were.
C10_UnknownNameToCatchAllOnly ==
    [][(AtFlush /\ CurrentName \notin TableNames /\ Lower(CurrentName) \notin TableNames)
          => /\ LowerUnderscore(CurrentName) \notin CanonicalKeys
             /\ LowerUnderscore(CurrentName) \in DOMAIN sections'
             /\ sections'[LowerUnderscore(CurrentName)]
                    = Str(Strip(Join(current_content, NL)))
             /\ \A k \in CanonicalKeys : sections'[k] = sections[k]]_vars

\* The trimmed text between two markers of a line.
Between(line, open, close) ==
    LET a == PyFind(line, open, 0) + Len(open)
        b == PyFind(line, close, a)
    IN  Strip(PySlice(line, a, b))

\* The document has the end-to-end shape; a is the place of the article
\* heading.
EndToEndShape(a) ==
    /\ HeadingsUpTo(Len(Lines)) = {1, a}
    /\ a > 1
    /\ NameOf(Lines[1]) \in {NameTrendsZh, HeadingTrendsEn}
    /\ NameOf(Lines[a]) \in {NameArticlesZh, HeadingArticlesEn}
    /\ Len(Lines) >= a + 5
    /\ StartsWith(Lines[a + 1], <<"#", "#", "#", " ">>)
    /\ HasTagsLabel(Lines[a + 2])
    /\ HasUrlLabel(Lines[a + 3])
    /\ HasSlugOpener(Lines[a + 4])

\* C7: for a document of the end-to-end shape the export splitter returns
\* trends equal to the prose trimmed, and one article block with the title,
\* the tags, the url and the slug of its lines and the body lines joined by
\* newlines as content.
C7_EndToEnd ==
    (pc = "done" /\ copy = "export") =>
        \A a \in 1..Len(Lines) :
            EndToEndShape(a) =>
                /\ sections[KeyTrends] = Str(Strip(Join(SubSeq(Lines, 2, a - 1), NL)))
                /\ sections[KeyArticleBlocks].type = "list"
                /\ Len(sections[KeyArticleBlocks].v) = 1
                /\ LET b == sections[KeyArticleBlocks].v[1]
                   IN  /\ b.title = Strip(SubSeq(Lines[a + 1], 5, Len(Lines[a + 1])))
                       /\ b.tags = Pieces(Lines[a + 2])
                       /\ b.url = Between(Lines[a + 3], <<"]", "(">>, <<")">>)
                       /\ b.slug = Between(Lines[a + 4], SlugOpen, CommentClose)
                       /\ b.content = Join(SubSeq(Lines, a + 5, Len(Lines)), NL)

-----------------------------------------------------------------------------
(* Claims about the enrichment loop *)

Enriched == fn = "enrich" /\ ret.done

\* Two values are the same value.
SameValue(x, y) == x.type = y.type /\ x.v = y.v

\* The articles hold, for the block's slug, a url, a cover and tags.
LookupDiffers(i) ==
    /\ arg.blocks[i].slug = Str(SlugS)
    /\ SlugS \in DOMAIN arg.articles
    /\ arg.articles[SlugS].cover_image.type = "str"
    /\ arg.articles[SlugS].tags.v # <<>>

\* C5: enrichment does not clobber: a block whose url is a non-empty string
\* before the loop has the same url after it, a block whose cover_image is a
\* non-empty string keeps it, and a block whose tags are a non-empty list keeps
\* them, whatever the articles hold for its slug.
C5_EnrichKeepsSetFields ==
    Enriched =>
        /\ Len(ret.value) = Len(arg.blocks)
        /\ \A i \in 1..Len(arg.blocks) :
              LET before == arg.blocks[i]
                  after == ret.value[i]
              IN  /\ (before.url.type = "str" /\ before.url.v # <<>>)
                        => SameValue(after.url, before.url)
                  /\ (before.cover_image.type = "str" /\ before.cover_image.v # <<>>)
                        => SameValue(after.cover_image, before.cover_image)
                  /\ (before.tags.type = "list" /\ before.tags.v # <<>>)
                        => SameValue(after.tags, before.tags)

\* C5 witness: a block with url, cover and tags set has been enriched against
\* an article of its slug that holds another url, another cover and other tags.
C5_Witness ==
    /\ Enriched
    /\ Len(arg.blocks) = 1
    /\ arg.blocks[1].url = Str(<<"a">>)
    /\ arg.blocks[1].cover_image = Str(<<"c">>)
    /\ arg.blocks[1].tags.type = "list"
    /\ arg.blocks[1].tags.v # <<>>
    /\ LookupDiffers(1)
    /\ ~SameValue(arg.articles[SlugS].url, arg.blocks[1].url)

-----------------------------------------------------------------------------
(* Claims about _markdown_to_html *)

HtmlReturned == fn = "_markdown_to_html" /\ ret.done

\* A line of plain prose: not blank, and without a marker of the grammar.
IsProseLine(line) ==
    /\ Strip(line) # <<>>
    /\ \A i \in 1..Len(line) :
          line[i] \notin {"#", "*", "_", "U0060", "[", "-", "+", "<"} \cup Digits

\* The paragraph a text opens with: its leading prose lines, trimmed and
\* joined by one space.
LeadingProse(lines) ==
    LET stop == {i \in 1..Len(lines) : ~IsProseLine(lines[i])}
        last == IF stop = {} THEN Len(lines) ELSE Min(stop) - 1
    IN  SubSeq(lines, 1, last)
JoinedParagraph(lines) ==
    Join([i \in 1..Len(LeadingProse(lines)) |-> Strip(LeadingProse(lines)[i])], <<" ">>)

\* The line that ends the opening paragraph is a blank line or a sub-heading,
\* or the paragraph runs to the end of the text.
ParagraphIsFlushed(lines) ==
    LET next == Len(LeadingProse(lines)) + 1
    IN  \/ next > Len(lines)
        \/ Strip(lines[next]) = <<>>
        \/ StartsWith(lines[next], <<"#", "#", "#", " ">>)

\* text with a break directly after each boundary character.
RECURSIVE Flatten(_, _, _)
Flatten(parts, lo, hi) ==
    IF lo > hi THEN <<>>
    ELSE IF lo = hi THEN parts[lo]
    ELSE Flatten(parts, lo, (lo + hi) \div 2) \o Flatten(parts, (lo + hi) \div 2 + 1, hi)
BreakAfterEachBoundary(text) ==
    Flatten([i \in 1..Len(text) |->
                IF text[i] \in Boundaries THEN <<text[i]>> \o Br ELSE <<text[i]>>],
            1, Len(text))

\* C6: a paragraph whose joined length is over 100 characters, with k boundary
\* characters none of which is its last character, is emitted as one paragraph
\* block with k inserted breaks, each directly after a boundary character; a
\* paragraph of joined length 100 or less is emitted without a break.  Stated
\* on the paragraph a text opens with, whatever flushes it.
C6_LongParagraphSplit ==
    HtmlReturned =>
        LET lines == SplitChar(arg, "\n")
            text == JoinedParagraph(lines)
            first == SplitChar(ret.value, "\n")[1]
        IN  (LeadingProse(lines) # <<>> /\ ParagraphIsFlushed(lines)) =>
                /\ (Len(text) > 100 /\ text[Len(text)] \notin Boundaries)
                      => first = POpen \o BreakAfterEachBoundary(text) \o PClose
                /\ Len(text) <= 100 => first = POpen \o text \o PClose

-----------------------------------------------------------------------------
(* Claims about the accounting of lines in _parse_issue_markdown *)

\* The step from this state is a flush: the next line is a heading, or there
\* is no next line.
FlushIsNext ==
    pc = "loop" /\ (n = Len(Lines) \/ StartsWith(Lines[n + 1], <<"#", "#", " ">>))

\* The lines after the nearest heading at or before line n.
LinesSinceHeading == SubSeq(Lines, Max(HeadingsUpTo(n)) + 1, n)

\* What a flush of the lines makes of them for the key.
FlushedValue(key, lines) ==
    IF key = KeyArticleBlocks THEN List(ParseArticleBlocks(copy, Join(lines, NL)).value)
    ELSE IF key = KeyNewsBriefs THEN List(ParseNewsBriefs(Join(lines, NL)).value)
    ELSE Str(Strip(Join(lines, NL)))

\* C11: line accounting.  At every flush, the lines since the nearest heading
\* (all of them, and no others) go into the section that heading opened and
\* into no other section; at a flush before any heading nothing goes into any
\* section.  A heading followed by no line has nothing to account for.
C11_LineAccounting ==
    [][FlushIsNext =>
          IF HeadingsUpTo(n) = {}
          THEN sections' = sections
          ELSE /\ current_section # None
               /\ LinesSinceHeading # <<>> =>
                      /\ current_section[1] \in DOMAIN sections'
                      /\ sections'[current_section[1]]
                             = FlushedValue(current_section[1], LinesSinceHeading)
               /\ \A k \in DOMAIN sections' \ {current_section[1]} :
                      k \in DOMAIN sections /\ sections'[k] = sections[k]]_vars

\* C12: malformed news bullets are dropped.  A brief is returned only for a
\* bullet line whose content begins with a bold-delimited title segment: the
\* briefs are as many as those lines, so that a bullet line without a bold
\* segment, with an unclosed one or with one that does not start the content,
\* and a line that is no bullet, contribute none.
C12_OnlyShapedBulletsGiveBriefs ==
    BriefsReturned =>
        LET lines == SplitChar(arg, "\n")
        IN  Len(ret.value) = Cardinality({i \in 1..Len(lines) : IsShapedBullet(lines[i])})

-----------------------------------------------------------------------------
(* Claims about the annotation lines of _parse_article_blocks *)

\* The line holds p somewhere.
Holds(line, p) == \E i \in 1..(Len(line) - Len(p) + 1) : SubSeq(line, i, i + Len(p) - 1) = p

\* The line holds "](" and a ")" after it.
HasLink(line) ==
    \E i \in 1..(Len(line) - 1) :
        /\ line[i] = "]"
        /\ line[i + 1] = "("
        /\ \E j \in (i + 3)..Len(line) : line[j] = ")"

\* A line that starts like an annotation but has not its form.
IsUnmatched(line) ==
    \/ HasUrlLabel(line) /\ ~HasLink(line)
    \/ StartsWith(line, <<"!", "[">>) /\ ~HasLink(line)
    \/ Holds(line, <<"[", "[">>) /\ ~Holds(line, <<"]", "]">>)
    \/ Holds(line, <<"(", "S", "e", "e", ":">>) /\ ~Holds(line, <<"[", "[">>)

\* A line of plain body: no heading, no label, no opener.
IsPlainBody(line) ==
    /\ ~StartsWith(line, <<"#", "#", "#", " ">>)
    /\ ~IsAnnotation(line)
    /\ ~HasTagsLabel(Strip(line))
    /\ ~StartsWith(line, <<"!", "[">>)
    /\ ~Holds(line, <<"[", "[">>)
    /\ ~Holds(line, <<"(", "S", "e", "e", ":">>)

\* The lines of the k-th block, in order.
BlockLinesOf(k) ==
    LET from == Nth(SubHeadingAt, k)
        to == Max(BlockLinesAt(k) \cup {from})
    IN  SubSeq(ArgLines, from + 1, to)

\* C13: degrade by omission.  In a block whose lines are body lines and lines
\* that start like an annotation without its form, the unmatched lines set no
\* field and are kept as body: the content is all the lines of the block.
C13_UnmatchedLinesKeptAsBody ==
    BlocksReturned =>
        \A k \in 1..Len(ret.value) :
            LET ls == BlockLinesOf(k)
            IN  (/\ \A i \in 1..Len(ls) : IsUnmatched(ls[i]) \/ IsPlainBody(ls[i])
                 /\ \E i \in 1..Len(ls) : IsUnmatched(ls[i]))
                    => /\ ret.value[k].tags = <<>>
                       /\ ret.value[k].url = <<>>
                       /\ ret.value[k].slug = <<>>
                       /\ ret.value[k].cover_image = None
                       /\ ret.value[k].content = Strip(Join(ls, NL))

-----------------------------------------------------------------------------
(* Claims about the blocks of _markdown_to_html *)

\* The lines of the prose and the lines of the HTML returned for it.
ProseLines == SplitChar(arg, "\n")
HtmlLines == SplitChar(ret.value, "\n")

\* The styled trend item of a number, a label and the remaining text.
TrendItemOf(number, label, rest) ==
    <<TrendItemOpen,
      TrendNumberOpen \o number \o <<".">> \o SpanClose,
      TrendTitleOpen \o label \o <<":">> \o StrongClose \o <<" ">> \o rest,
      DivClose>>

\* C14: styled trend item.  For every line of the prose of the form
\* "<digits>. **<label>**: <rest>" the HTML holds the styled trend item that
\* carries the number, the label and the rest as three sub-fields, and holds
\* no generic numbered paragraph of that number.
C14_TrendLineGivesStyledItem ==
    HtmlReturned =>
        \A i \in 1..Len(ProseLines) :
            LET m == MatchTrendItem(Strip(ProseLines[i]))
            IN  m.ok =>
                    /\ \E j \in 1..(Len(HtmlLines) - 3) :
                          SubSeq(HtmlLines, j, j + 3) = TrendItemOf(m.number, m.title, m.content)
                    /\ \A j \in 1..Len(HtmlLines) :
                          ~StartsWith(HtmlLines[j], NumberedOpen \o m.number \o <<".">>)

-----------------------------------------------------------------------------
(* Claims about the reference resolution of export_pdf *)

Exported == fn = "export_pdf" /\ ret.done

\* C15: cover-image non-clobber.  A block whose cover_image the parser set
\* from an image line has the same cover_image after the resolution loop of
\* export_pdf, whatever the database holds for its slug.
C15_ParsedCoverKept ==
    Exported =>
        /\ Len(ret.value) = Len(ret.parsed)
        /\ \A k \in 1..Len(ret.parsed) :
              ret.parsed[k].cover_image # None
                  => ret.value[k].cover_image = ret.parsed[k].cover_image

-----------------------------------------------------------------------------
(* Claims about calls of the splitter in progress at the same time, stated
   over SpecConcurrent *)

\* C16: a call of _parse_issue_markdown whose line steps were interleaved with
\* those of another call returns exactly the Document it returns when run
\* alone, and two calls on the same text return equal Documents.
C16_InterleavedCallsReturnAsAlone ==
    /\ \A t \in 1..Len(frames) :
          frames[t].pc # "loop" => frames[t] = ParseIssueMarkdown(copy, frames[t].markdown)
    /\ \A s \in 1..Len(frames), t \in 1..Len(frames) :
          (/\ frames[s].pc = "done"
           /\ frames[t].pc = "done"
           /\ frames[s].markdown = frames[t].markdown)
              => frames[s].sections = frames[t].sections

\* The first call has returned a Document with a section filled in while the
\* second call, on another text, is in the middle of its lines with content
\* collected.
C16_Witness ==
    /\ Len(frames) = 2
    /\ frames[1].pc = "done"
    /\ frames[1].sections # InitialSections
    /\ frames[2].pc = "loop"
    /\ frames[2].n > 0
    /\ frames[2].n < Len(FrameLines(frames[2]))
    /\ frames[2].current_content # <<>>
    /\ frames[1].markdown # frames[2].markdown

-----------------------------------------------------------------------------
(* Claims about the retry decorator, stated over SpecRetry *)

Wrapper == frames[1]

\* The first k invocations of the wrapped function all raise an exception the
\* decorator catches.
FirstRaiseRetryable(k) ==
    \A i \in 1..k :
        /\ Wrapper.func[i] \in ExceptionClasses
        /\ IsRetryable(ExceptionOf(Wrapper.func[i], i), Wrapper.exceptions)

\* C17: a function wrapped with retry(max_attempts=n) is invoked at most n
\* times; the wrapper returns the result of the first invocation that succeeds
\* and invokes nothing after it (n - 1 failures and a success give that result
\* after exactly n invocations); when all n invocations raise a retryable
\* exception, the exception of the n-th is raised to the caller.
C17_RetryInvokesAtMostMaxAttempts ==
    /\ Wrapper.invocations <= Wrapper.max_attempts
    /\ (Wrapper.pc = "returned" /\ Wrapper.invocations > 0)
          => /\ Wrapper.func[Wrapper.invocations] = "return"
             /\ \A i \in 1..(Wrapper.invocations - 1) : Wrapper.func[i] # "return"
             /\ Wrapper.returned = Some(ResultOf(Wrapper.invocations))
    /\ \A k \in 1..Wrapper.max_attempts :
          (/\ Wrapper.pc # "loop"
           /\ FirstRaiseRetryable(k - 1)
           /\ Wrapper.func[k] = "return")
              => /\ Wrapper.pc = "returned"
                 /\ Wrapper.invocations = k
                 /\ Wrapper.returned = Some(ResultOf(k))
    /\ (/\ Wrapper.pc # "loop"
        /\ Wrapper.max_attempts >= 1
        /\ FirstRaiseRetryable(Wrapper.max_attempts))
          => /\ Wrapper.pc = "raised"
             /\ Wrapper.invocations = Wrapper.max_attempts
             /\ Wrapper.raised =
                    Some(ExceptionOf(Wrapper.func[Wrapper.max_attempts], Wrapper.max_attempts))

\* The wrapped function failed on its first max_attempts - 1 invocations and
\* succeeded on the last; the wrapper has returned.
C17_Witness ==
    /\ Wrapper.max_attempts = MaxAttempts
    /\ FirstRaiseRetryable(MaxAttempts - 1)
    /\ Wrapper.func[MaxAttempts] = "return"
    /\ Wrapper.pc = "returned"
    /\ Wrapper.invocations = MaxAttempts

\* Every invocation raised a retryable exception and the wrapper has raised.
C17_WitnessExhausted ==
    /\ Wrapper.max_attempts = MaxAttempts
    /\ FirstRaiseRetryable(MaxAttempts)
    /\ Wrapper.pc = "raised"

-----------------------------------------------------------------------------
(* Claims about duplicate sections, stated over Spec *)

\* The canonical key of a heading name: the table's key for a table name, the
\* lower-cased, underscored name for any other.
CanonicalKeyOf(name) ==
    IF name \in TableNames THEN TableKey[name] ELSE LowerUnderscore(name)

\* The headings of the text whose names have the key, and the lines of the
\* section the heading at line h opens.
HeadingsOfKey(key) ==
    {h \in HeadingsUpTo(Len(Lines)) : CanonicalKeyOf(NameOf(Lines[h])) = key}
SectionEnd(h) ==
    IF \E i \in HeadingsUpTo(Len(Lines)) : i > h
    THEN (CHOOSE i \in HeadingsUpTo(Len(Lines)) :
              i > h /\ \A j \in HeadingsUpTo(Len(Lines)) : j > h => i <= j) - 1
    ELSE Len(Lines)
SectionLines(h) == SubSeq(Lines, h + 1, SectionEnd(h))

\* C18: duplicate sections, last write wins.  When two or more headings of the
\* text have the same canonical key, the returned Document holds for that key
\* what the flush makes of the lines of the last of these sections, and nothing
\* of the earlier ones.
C18_LastDuplicateSectionWins ==
    pc = "done" =>
        \A h \in HeadingsUpTo(Len(Lines)) :
            LET key == CanonicalKeyOf(NameOf(Lines[h]))
            IN  Cardinality(HeadingsOfKey(key)) >= 2
                    => /\ key \in DOMAIN sections
                       /\ sections[key] = FlushedValue(key, SectionLines(Max(HeadingsOfKey(key))))

-----------------------------------------------------------------------------
(* Claims about the slug and the title of a block, stated over SpecBlocks *)

\* The line holds "[[", some value and "]]" after it.
HasReference(line) ==
    \E i \in 1..Len(line), j \in 1..Len(line) :
        /\ i + 2 <= j
        /\ SubSeq(line, i, i + 1) = <<"[", "[">>
        /\ SubSeq(line, j, j + 1) = <<"]", "]">>

\* The value of a hidden slug comment: what stands between the opener and the
\* closing "-->", trimmed.
CommentEnd(line) ==
    CHOOSE j \in (Len(SlugOpen) + 1)..(Len(line) + 1) :
        /\ j = Len(line) + 1 \/ SubSeq(line, j, j + 2) = <<"-", "-", ">">>
        /\ \A i \in (Len(SlugOpen) + 1)..(j - 1) : SubSeq(line, i, i + 2) # <<"-", "-", ">">>
HiddenValue(line) == Strip(SubSeq(line, Len(SlugOpen) + 1, CommentEnd(line) - 1))

\* C19: slug precedence.  When a hidden slug comment of a block is followed
\* later in the block by a line that holds "[[value]]", the slug of the block
\* is the value of the hidden comment.
C19_HiddenSlugBeforeReference ==
    BlocksReturned =>
        \A k \in 1..Len(ret.value) :
            LET ls == BlockLinesOf(k)
            IN  \A i \in 1..Len(ls) :
                    (/\ HasSlugOpener(ls[i])
                     /\ HiddenValue(ls[i]) # <<>>
                     /\ \A j \in (i + 1)..Len(ls) : ~HasSlugOpener(ls[j])
                     /\ \E j \in (i + 1)..Len(ls) : HasReference(ls[j]))
                        => ret.value[k].slug = HiddenValue(ls[i])

\* C20: title invariant.  Every block parseArticleBlocks returns, for every
\* section text, has a non-empty title.
C20_TitleNonEmpty ==
    BlocksReturned => \A k \in 1..Len(ret.value) : ret.value[k].title # <<>>

-----------------------------------------------------------------------------
(* Claims about the breaks of a split paragraph, stated over SpecHtml *)

\* The opening paragraph is flushed by a blank line or by the end of the text
\* (the two flushes that split), is over 100 characters long and holds a
\* sentence boundary.
OpeningParagraphIsSplit ==
    LET lines == SplitChar(arg, "\n")
        next == Len(LeadingProse(lines)) + 1
        text == JoinedParagraph(lines)
    IN  /\ LeadingProse(lines) # <<>>
        /\ next > Len(lines) \/ Strip(lines[next]) = <<>>
        /\ Len(text) > 100
        /\ \E i \in 1..Len(text) : text[i] \in Boundaries

\* text with a break directly after each boundary character but the last one.
BreakAfterAllButLastBoundary(text) ==
    LET last == Max({i \in 1..Len(text) : text[i] \in Boundaries})
    IN  Flatten([i \in 1..Len(text) |->
                    IF text[i] \in Boundaries /\ i # last THEN <<text[i]>> \o Br
                    ELSE <<text[i]>>],
                1, Len(text))

FirstBlock == SplitChar(ret.value, "\n")[1]

\* C21 as stated: when a flushed paragraph longer than 100 characters is
\* split, a break stands after every sentence boundary except the last one of
\* the paragraph, which is followed by no break.
C21_NoBreakAfterLastBoundary ==
    (HtmlReturned /\ OpeningParagraphIsSplit) =>
        FirstBlock
            = POpen \o BreakAfterAllButLastBoundary(JoinedParagraph(SplitChar(arg, "\n")))
                \o PClose

\* C21 amended: when a flushed paragraph longer than 100 characters is split,
\* a break stands after every sentence boundary of the paragraph, the last one
\* included, also when that boundary is the final character of the paragraph.
C21_BreakAfterEveryBoundary ==
    (HtmlReturned /\ OpeningParagraphIsSplit) =>
        FirstBlock
            = POpen \o BreakAfterEachBoundary(JoinedParagraph(SplitChar(arg, "\n"))) \o PClose

\* A split paragraph whose final character is a boundary has been emitted.
C21_Witness ==
    /\ HtmlReturned
    /\ OpeningParagraphIsSplit
    /\ LET text == JoinedParagraph(SplitChar(arg, "\n"))
       IN  text[Len(text)] \in Boundaries

\* A split paragraph with two boundaries inside has been emitted.
C21_WitnessInside ==
    /\ HtmlReturned
    /\ OpeningParagraphIsSplit
    /\ LET text == JoinedParagraph(SplitChar(arg, "\n"))
       IN  /\ text[Len(text)] \notin Boundaries
           /\ Cardinality({i \in 1..Len(text) : text[i] \in Boundaries}) = 2


\* The line of the result is a paragraph block, and its text.
IsParagraphBlock(line) ==
    /\ StartsWith(line, POpen)
    /\ Len(line) >= Len(POpen) + Len(PClose)
    /\ SubSeq(line, Len(line) - Len(PClose) + 1, Len(line)) = PClose
ParagraphText(line) == SubSeq(line, Len(POpen) + 1, Len(line) - Len(PClose))

\* C22: the long-paragraph rule applies at every flush of the paragraph
\* buffer: no paragraph block of the result has a text of more than 100
\* characters that holds a sentence boundary and no inserted break, whatever
\* flushed it (a blank line, a heading line, a trend item, the end of the
\* text).
C22_LongParagraphNeverUnsplit ==
    HtmlReturned =>
        \A j \in 1..Len(HtmlLines) :
            (/\ IsParagraphBlock(HtmlLines[j])
             /\ Len(ParagraphText(HtmlLines[j])) > 100
             /\ \E i \in 1..Len(ParagraphText(HtmlLines[j])) :
                   ParagraphText(HtmlLines[j])[i] \in Boundaries)
                => Holds(ParagraphText(HtmlLines[j]), Br)

-----------------------------------------------------------------------------
(* Claims about the list containers of the result, stated over SpecHtml *)

\* The number of lists open after the first j lines of the result.
ListsOpenAfter(j) ==
    Cardinality({i \in 1..j : HtmlLines[i] = UlOpen})
        - Cardinality({i \in 1..j : HtmlLines[i] = UlClose})

\* C23: list containers are balanced.  A list-open marker is emitted only when
\* no list is open, a list-close marker only when one is open, every list item
\* is emitted while a list is open, and after the last line no list is open.
C23_ListContainersBalanced ==
    HtmlReturned =>
        /\ \A j \in 1..Len(HtmlLines) :
              /\ HtmlLines[j] = UlOpen => ListsOpenAfter(j - 1) = 0
              /\ HtmlLines[j] = UlClose => ListsOpenAfter(j - 1) = 1
              /\ StartsWith(HtmlLines[j], LiOpen) => ListsOpenAfter(j) = 1
        /\ ListsOpenAfter(Len(HtmlLines)) = 0

\* Two lists were opened and closed, the second one by the end of the text.
C23_Witness ==
    /\ HtmlReturned
    /\ Cardinality({i \in 1..Len(HtmlLines) : HtmlLines[i] = UlOpen}) = 2
    /\ Cardinality({i \in 1..Len(HtmlLines) : StartsWith(HtmlLines[i], LiOpen)}) = 2
    /\ HtmlLines[Len(HtmlLines)] = UlClose

-----------------------------------------------------------------------------
(* Claims about the tags of enriched blocks, stated over SpecEnrich *)

\* The tags of the block are a string that json.loads rejects.
TagsUndecodable(block) ==
    /\ block.tags.type = "str"
    /\ JsonLoadsRaises(block.tags.v) \/ ~JsonLoads(block.tags.v).ok

\* C24: tag decoding failure is contained.  Enrichment returns a block for
\* every block; a block whose tags are a string that cannot be decoded gets
\* the one-element list of that string as its tags; and every other block of
\* the sequence is enriched as it is when enriched alone (a missing or empty
\* url is filled from the article of its slug).
C24_UndecodableTagsContained ==
    Enriched =>
        /\ ret.raised = None
        /\ Len(ret.value) = Len(arg.blocks)
        /\ \A i \in 1..Len(arg.blocks) :
              TagsUndecodable(arg.blocks[i]) =>
                  /\ SameValue(ret.value[i].tags, List(<<arg.blocks[i].tags.v>>))
                  /\ \A j \in (1..Len(arg.blocks)) \ {i} :
                        /\ ret.value[j] = Enrich(arg.articles, <<arg.blocks[j]>>)[1]
                        /\ (/\ ~Truthy(arg.blocks[j].url)
                            /\ arg.blocks[j].slug = Str(SlugS)
                            /\ SlugS \in DOMAIN arg.articles)
                              => SameValue(ret.value[j].url, arg.articles[SlugS].url)


\* C28: tags stay a sequence.  After an enrichment that ended the tags of every block that
\* the composer delivered with tags as an encoded string are a list (of
\* strings), never a bare string, a number or a mapping.
C28_TagsStayASequence ==
    (Enriched /\ ret.raised = None) =>
        \A i \in 1..Len(arg.blocks) :
            arg.blocks[i].tags.type = "str" => ret.value[i].tags.type = "list"

-----------------------------------------------------------------------------
(* Claims about the vault export, stated over SpecVault *)

\* The line is a hidden slug comment of the canonical form: the opener, one
\* space, a value without a space, one space and the closer.
IsCanonicalSlugComment(line) ==
    LET value == SubSeq(line, Len(SlugOpen) + 2, Len(line) - 4)
    IN  /\ Len(line) >= Len(SlugOpen) + 6
        /\ SubSeq(line, 1, Len(SlugOpen) + 1) = SlugOpen \o <<" ">>
        /\ SubSeq(line, Len(line) - 3, Len(line)) = <<" ", "-", "-", ">">>
        /\ \A i \in 1..Len(value) : value[i] # " "

\* C25: the issue content written to the vault holds no hidden slug comment:
\* every line '<!-- SLUG: value -->' of the input is removed.
C25_VaultHasNoSlugComment ==
    (fn = "publish_issue" /\ ret.done) =>
        \A i \in 1..Len(SplitChar(ret.value, "\n")) :
            ~IsCanonicalSlugComment(SplitChar(ret.value, "\n")[i])


\* The first characters of the opening line, which no split of a long
\* paragraph touches.
OpeningText == SubSeq(ProseLines[1], 1, IF Len(ProseLines[1]) < 40 THEN Len(ProseLines[1]) ELSE 40)

\* C26: the blocks come in the order of the source lines that produced them:
\* the text of an earlier line never stands after a block of a later line. The
\* first line is earlier than every other one, so a text that opens with a
\* line of prose gives a result that opens with the paragraph of that line,
\* whatever follows it (a numbered line, a bulleted line).
C26_BlocksInSourceOrder ==
    (HtmlReturned /\ arg # <<>> /\ IsProseLine(ProseLines[1]) /\ ProseLines[1] = Strip(ProseLines[1])) =>
        StartsWith(FirstBlock, POpen \o OpeningText)


\* What the email publisher's copy of the parser returns for the same text.
EmailBlocks == EmailParseArticleBlocks(arg)

\* C27: the copies of the article block parser agree: for every section text
\* the email publisher's parser and the export command's parser return the
\* same number of blocks, with equal title, slug, tags, url and content in
\* each position.
C27_ParserCopiesAgree ==
    (BlocksReturned /\ ret.raised = None /\ EmailBlocks.raised = None) =>
        /\ Len(EmailBlocks.value) = Len(ret.value)
        /\ \A i \in 1..Len(ret.value) :
              /\ EmailBlocks.value[i].title = ret.value[i].title
              /\ EmailBlocks.value[i].slug = ret.value[i].slug
              /\ EmailBlocks.value[i].tags = ret.value[i].tags
              /\ EmailBlocks.value[i].url = ret.value[i].url
              /\ EmailBlocks.value[i].content = ret.value[i].content

-----------------------------------------------------------------------------
(* Claims about RetryContext, stated over SpecContext *)

ContextExited == fn = "RetryContext" /\ frames[1].pc = "exited"

\* C29: RetryContext does not hide errors: an exception that leaves the body
\* of the with-block, the one record_failure re-raises because it is not of a
\* retryable type included, reaches the caller of the with-block, whatever the
\* number of attempts recorded so far.
C29_ExceptionReachesCaller ==
    (ContextExited /\ frames[1].leaving # None) => frames[1].reached = frames[1].leaving

-----------------------------------------------------------------------------
(* Claims about the add command, stated over SpecAdd *)

\* C30: slug stability across updates: after any sequence of add commands,
\* re-adding a stored URL with force updates that article's row and leaves its
\* slug as it was, so that a slug written into an earlier issue still finds
\* the same article.
C30_ForcedUpdateKeepsSlug ==
    [][(fn = "add" /\ ret'.done /\ ret'.stored /\ arg'.force)
          => \A i \in 1..Len(db) :
                db[i].url = arg'.url
                    => /\ db'[i].slug = db[i].slug
                       /\ RowsBySlug(db', db[i].slug) = {i}]_vars

=============================================================================
